---- MODULE Spec2Model ----
(***************************************************************************)
(* ClusterAxe coordination layer (ShaeOJ/ClusterAxe, main/cluster).        *)
(*                                                                         *)
(* Spec         : the Coordinator's registry, partitioner, work fan-out and*)
(*                supervisor (cluster_master.c), as three interleaved      *)
(*                tasks, with devices that join at start-up.               *)
(* SpecRegistry : the registry and the partitioner alone, with any         *)
(*                hostname and link address registering at any time.       *)
(* SpecShares   : share fan-in, from the CLSHR handler to the pool result. *)
(* SpecFrames   : the two receive paths of a frame (UART and ESP-NOW).     *)
(* SpecJobMap   : the table from numeric job ids to the pool's job ids.    *)
(* SpecBalance  : the pool balancer in front of the work fan-out.          *)
(* SpecCodec    : the CLWRK and CLSHR encoders and decoders.               *)
(* SpecNoSlot   : registrations and the CLACK that answers them.           *)
(* SpecPacer    : the job-interval Pacer (auto_timing.c).                  *)
(* SpecTuner    : the autotune sweep of the Tuner.                         *)
(* SpecStop     : the sweep with cluster_autotune_stop; SpecStopFair adds  *)
(*                the scheduler's fairness.                                *)
(* SpecWatchdog : the safety watchdog of the Tuner.                        *)
(* SpecMode     : cluster_init, cluster_deinit and cluster_set_mode.       *)
(* SpecWorker   : a Worker's work reception, worker_task and share path;   *)
(*                SpecWorkerFair adds the scheduler's fairness.            *)
(* SpecHeader   : the tasks that store and copy current_work, field by   *)
(*                field.                                                   *)
(* SpecLocks    : the handlers' use of the registry mutex and of the      *)
(*                transport.                                               *)
(* SpecRadio    : cluster_espnow_send, its completion callback and the    *)
(*                discovery beacon.                                        *)
(* SpecOnePool  : the pool balancer with one pool sending every notify.    *)
(* SpecMerkle   : notifies, the stored snapshots and the merkle root of    *)
(*                the work frames.                                         *)
(* SpecDevices  : two Worker devices, their registrations and heartbeats.  *)
(* SpecProofs   : a share from the ASIC's result to the Stratum queue,     *)
(*                through both duplicate filters.                          *)
(* SpecSweepers : starts and stops of the Tuner and the tasks they leave.   *)
(* SpecRebroadcast : the supervisor's rebroadcast, under fair scheduling   *)
(*                of coordinator_task.                                     *)
(***************************************************************************)
EXTENDS Integers, Sequences, FiniteSets, TLC

\* ------------------------------------------------------------------------
\* Bounds of the model
\* ------------------------------------------------------------------------

\* Registry slots. The code's CONFIG_CLUSTER_MAX_SLAVES defaults to 8 and is
\* a build-time setting (cluster_config.h:53-55); the model runs a smaller
\* registry.
CLUSTER_MAX_SLAVES == 2

\* Number of distinct hostnames and of distinct link addresses on the bus.
NumHostnames == 2
NumMacs == 2

\* Number of devices, each with a hostname and a link address of its own.
NumDevices == 2

\* The clock advances in steps of TickMs, MaxTicks times.
TickMs == 7000
MaxTicks == 2

\* Number of distinct pool jobs the stratum client delivers.
MaxJobs == 1

\* slave_count is an unbounded counter of the code (uint8_t); registrations
\* and recoveries stop once it has reached this value.
MaxSlaveCount == 3

\* The share path runs with smaller tables than the build's (32 recent
\* shares, 16 queued shares, 64 pending shares).
RECENT_SHARES_SIZE == 2
SHARE_QUEUE_SIZE == 1
MAX_PENDING_SHARES == 2

\* Nonces a worker may report, 1..MaxNonce.
MaxNonce == 1

\* Each pool socket takes request ids up to MaxUid.
MaxUid == 2

\* The job table runs with fewer entries than the build's 256, and the
\* number of notifies stored is bounded.
MAX_JOB_MAPPINGS == 3
MaxStores == 6

\* Numeric job ids 1..MaxNumericId.
MaxNumericId == 2

\* Notifies offered to the pool balancer in one run.
MaxOffered == 13

\* Pacer: the step of its clock, the number of steps, the shares reported
\* while the task sleeps once, and the most shares a window collects.
PacerTickMs == 90000
MaxPacerTicks == 9
ShareBurst == 10
MaxWindowShares == 20

\* ------------------------------------------------------------------------
\* Program constants
\* ------------------------------------------------------------------------

CLUSTER_HEARTBEAT_MS == 3000
CLUSTER_TIMEOUT_MS == 10000
WORK_REBROADCAST_INTERVAL_MS == 10000
SEND_ATTEMPTS == 3

\* ------------------------------------------------------------------------
\* 32-bit unsigned arithmetic. A value v is the pair <<hi, lo>> with
\* v = hi * 65536 + lo and lo < 65536; a uint32_t has hi < 65536, a wider
\* intermediate result (a sum of ranges, 2^32) has a larger hi.
\* ------------------------------------------------------------------------

Limb == 256 * 256

WZero == <<0, 0>>

\* 0xFFFFFFFF, the dividend of the partition.
NONCE_SPACE == <<65535, 65535>>

\* 2^32, as a wide value.
TwoPow32 == <<65536, 0>>

WDiv(w, n) == <<w[1] \div n, ((w[1] % n) * Limb + w[2]) \div n>>

WMul(k, w) == <<k * w[1] + ((k * w[2]) \div Limb), (k * w[2]) % Limb>>

WAdd(a, b) == <<a[1] + b[1] + ((a[2] + b[2]) \div Limb), (a[2] + b[2]) % Limb>>

WLe(a, b) == a[1] < b[1] \/ (a[1] = b[1] /\ a[2] <= b[2])

\* Truncation of a wide value to uint32_t.
U32(w) == <<w[1] % Limb, w[2]>>

\* v - 1 in uint32_t arithmetic (0 - 1 wraps to 0xFFFFFFFF).
U32Dec(w) ==
    IF w[2] > 0 THEN <<w[1], w[2] - 1>>
    ELSE IF w[1] > 0 THEN <<w[1] - 1, Limb - 1>>
    ELSE <<Limb - 1, Limb - 1>>

RECURSIVE WSum(_, _)
WSum(f, S) ==
    IF S = {} THEN WZero
    ELSE LET x == CHOOSE y \in S : TRUE
         IN WAdd(f[x], WSum(f, S \ {x}))

\* ------------------------------------------------------------------------
\* Registry (cluster_slave_t, cluster_master_state_t)
\* ------------------------------------------------------------------------

Slots == 0 .. (CLUSTER_MAX_SLAVES - 1)

SLAVE_STATE_DISCONNECTED == "Disconnected"
SLAVE_STATE_ACTIVE == "Active"
SLAVE_STATE_STALE == "Stale"

\* Hostnames 1..NumHostnames; 0 is the empty string of a zeroed slot.
Hostnames == 1 .. NumHostnames

\* Link addresses 1..NumMacs; 0 is the all-zero address of a zeroed slot and
\* stands for a NULL mac_addr (a registration that came over the UART).
Macs == 1 .. NumMacs
NoMac == 0

\* Lengths of extranonce2 a pool may announce (the buffer holds 8 bytes).
En2Lens == {0, 4}

VARIABLES
    slaves,         \* g_master->slaves[]
    slave_count,    \* g_master->slave_count (uint8_t)
    work_valid,     \* g_master->work_valid
    current_work,   \* g_master->current_work
    now,            \* esp_timer_get_time() / 1000
    tasks,          \* position of the receive task ("rx"), of the stratum task
                    \* inside cluster_master_distribute_work ("stratum") and
                    \* of coordinator_task ("coord")
    lastTx,         \* the addressee of the last CLWRK frame put on the air and
                    \* the lifecycle that addressee had at the moment of the transmit
    recalcDone,     \* TRUE in the state calculate_nonce_ranges() has just produced
    jobsIssued      \* number of notifies the pool has delivered

registryVars == <<slaves, slave_count, work_valid, current_work, now, tasks,
                  lastTx, recalcDone, jobsIssued>>

VARIABLES
    recent_shares,          \* recent_shares[], each entry with the number of
                            \* receptions of its tuple since it was recorded
                            \* and whether the recorded reception was queued
    recent_shares_idx,      \* recent_shares_idx
    share_queue,            \* g_master->share_queue
    pending_cluster_shares, \* pending_cluster_shares[], each entry with the
                            \* socket its share went out on
    pending_share_index,    \* pending_share_index
    send_uid,               \* GlobalState.send_uid
    send_uid_secondary,     \* GlobalState.send_uid_secondary
    secondary_connected,    \* stratum_is_secondary_connected()
    share_count,            \* slaves[].shares_accepted / shares_rejected
    outstanding,            \* submits the pools have not answered yet
    lastSubmit,             \* the last STRATUM_V1_submit_share call
    lastResult              \* the last cluster_notify_share_result call

shareVars == <<recent_shares, recent_shares_idx, share_queue,
               pending_cluster_shares, pending_share_index, send_uid,
               send_uid_secondary, secondary_connected, share_count,
               outstanding, lastSubmit, lastResult>>

VARIABLES
    lastRx                  \* the last frame a receive path has processed

frameVars == <<lastRx>>

VARIABLES
    job_mappings,           \* job_mappings[]
    job_mapping_index,      \* job_mapping_index
    probe                   \* one stored mapping that is followed

mapVars == <<job_mappings, job_mapping_index, probe>>

VARIABLES
    pool_balance,                  \* g_global_state->SYSTEM_MODULE.pool_balance
    cluster_primary_distributed,   \* cluster_primary_distributed
    cluster_secondary_distributed, \* cluster_secondary_distributed
    offered                        \* notifies offered to the balancer so far

balanceVars == <<pool_balance, cluster_primary_distributed,
                 cluster_secondary_distributed, offered>>

VARIABLES
    codec       \* the last call of an encoder: its input, what it returned,
                \* the frame it left in the buffer and what the decoder made
                \* of that frame

codecVars == <<codec>>

VARIABLES
    reply       \* what the last registration has led to: the value returned
                \* from the mutex section, the CLACK frames sent to the
                \* registrant, and whether the registry kept its contents

ackVars == <<reply>>

VARIABLES
    at,                     \* GLOBAL_STATE->AUTO_TIMING_MODULE
    nvs_job_interval,       \* NVS_CONFIG_JOB_INTERVAL_MS
    pacer_pc,               \* "boot" before auto_timing_init, "init" after it,
                            \* "loop" once auto_timing_task is in its loop
    pacer_now,              \* get_time_ms() as the Pacer reads it
    sweep                   \* the calibration sweep as an observer records it

pacerVars == <<at, nvs_job_interval, pacer_pc, pacer_now, sweep>>

VARIABLES
    g_autotune,     \* g_autotune: status, task_running, task_handle and the
                    \* watchdog's fields
    mutex,          \* who holds g_autotune.mutex: "none", "task" or "stop"
    hw,             \* the frequency and the core voltage last set on the
                    \* hardware (ASIC_set_frequency, VCORE_set_voltage)
    tune,           \* cluster_autotune_task: its position, the cell it tests
                    \* next and its local best_* values
    stopper,        \* the caller of cluster_autotune_stop
    grid,           \* the responses of the cells of the running sweep as an
                    \* observer records them
    wd              \* what the last pass of cluster_watchdog_task has read

tunerVars == <<g_autotune, mutex, hw, tune, stopper, grid, wd>>

VARIABLES
    g_cluster_mode, \* g_cluster_state.mode
    nvs_mode,       \* the "mode" key of the NVS namespace "cluster"
    firmware,       \* what the firmware was built as
    mode_call       \* the last call of cluster_set_mode: its argument, the
                    \* mode it found and the value it returned

modeVars == <<g_cluster_mode, nvs_mode, firmware, mode_call>>

VARIABLES
    g_slave,        \* the Worker's g_slave: registered, my_id, work_valid and
                    \* current_work
    worker_notify,  \* whether worker_task has a notification pending
    wtask,          \* worker_task: its position, its copy of the work and
                    \* its last_job_id, last_extranonce2 and last_en2_len
    asic_jobs,      \* the jobs enqueued on ASIC_jobs_queue, oldest first
    found_share,    \* the last share cluster_slave_on_share_found queued,
                    \* with the index of the ASIC job that found its nonce
    slave_recent_shares, \* the (nonce, job_id) pairs of the shares recorded
    frames_rx       \* the number of CLWRK frames received and of finds

workerVars == <<g_slave, worker_notify, wtask, asic_jobs, found_share,
                slave_recent_shares, frames_rx>>

VARIABLES
    stored_header,  \* the header fields of g_master->current_work, each with
                    \* the number of the notify it was written from
    header_valid,   \* g_master->work_valid as the copying tasks see it
    storer,         \* the stratum task inside cluster_master_distribute_work
    copiers,        \* the supervisor and the receive task inside
                    \* send_work_to_slave, copying *work
    clwrk           \* the last CLWRK frame built: who built it and the notify
                    \* each of its header fields comes from

headerVars == <<stored_header, header_valid, storer, copiers, clwrk>>

VARIABLES
    slaves_mutex,   \* the task that holds g_master->slaves_mutex, or "none"
    callers         \* per task: the steps left of the handler it runs and
                    \* whether it is inside a transport send

lockVars == <<slaves_mutex, callers>>

VARIABLES
    send_mutex,     \* the task that holds g_espnow.send_mutex, or "none"
    send_sem,       \* g_espnow.send_sem, with the task whose transmit's
                    \* completion gave it
    last_send_status, \* g_espnow.last_send_status: TRUE for success
    in_flight,      \* the transmits handed to esp_now_send and not yet
                    \* completed, oldest first, each by the task that issued it
    senders,        \* the position of each task inside cluster_espnow_send
    consumed        \* the last completion a sender took from send_sem: the
                    \* sender and the task whose transmit it reports

radioVars == <<send_mutex, send_sem, last_send_status, in_flight, senders,
               consumed>>

VARIABLES
    g_stored_notify, \* g_stored_notify: for each pool the notify whose coinbase
                     \* and merkle branches are stored, by its number in the
                     \* order of arrival; 0 while valid is false
    work_origin,     \* the notify g_master->current_work was made from, and
                     \* work_valid
    clwrk_origin     \* the last CLWRK frame sent: the notify of its job_id and
                     \* header fields, and the notify its merkle root was
                     \* computed from (0: not computed, the root is the
                     \* placeholder copied with the work)

merkleVars == <<g_stored_notify, work_origin, clwrk_origin>>

VARIABLES
    devices     \* the Worker devices on the link: g_slave->registered and
                \* g_slave->my_id of each

deviceVars == <<devices>>

VARIABLES
    proofs_found,   \* the distinct results the Worker's ASIC has reported
    worker_ring,    \* the Worker's slave_recent_shares, with slave_recent_idx
    clshr_link,     \* the shares on their way to the Coordinator: the
                    \* Worker's share_queue and the link, oldest first
    master_ring,    \* the Coordinator's recent_shares, with recent_shares_idx
    to_stratum      \* the shares the Coordinator has queued for Stratum

proofVars == <<proofs_found, worker_ring, clshr_link, master_ring, to_stratum>>

VARIABLES
    sweepers    \* the tasks xTaskCreate has made of cluster_autotune_task and
                \* that have not deleted themselves: where each one is, the
                \* cells it has tested and the cell it is testing

sweeperVars == <<sweepers>>

\* The state of the parts outside the Coordinator's registry, share path,
\* receive paths and job table.
extVars == <<balanceVars, codecVars, ackVars, pacerVars, tunerVars, modeVars,
             workerVars, headerVars, lockVars, radioVars, merkleVars,
             deviceVars, proofVars, sweeperVars>>

\* What the steps of one of these parts leave alone.
notBalance == <<registryVars, shareVars, frameVars, mapVars, codecVars,
                ackVars, pacerVars, tunerVars, modeVars, workerVars,
                headerVars, lockVars, radioVars, merkleVars, deviceVars,
                proofVars, sweeperVars>>
notCodec == <<registryVars, shareVars, frameVars, mapVars, balanceVars,
              ackVars, pacerVars, tunerVars, modeVars, workerVars, headerVars,
              lockVars, radioVars, merkleVars, deviceVars, proofVars,
              sweeperVars>>
notAck == <<shareVars, frameVars, mapVars, balanceVars, codecVars, pacerVars,
            tunerVars, modeVars, workerVars, headerVars, lockVars, radioVars,
            merkleVars, deviceVars, proofVars, sweeperVars>>
notPacer == <<registryVars, shareVars, frameVars, mapVars, balanceVars,
              codecVars, ackVars, tunerVars, modeVars, workerVars, headerVars,
              lockVars, radioVars, merkleVars, deviceVars, proofVars,
              sweeperVars>>
notTuner == <<registryVars, shareVars, frameVars, mapVars, balanceVars,
              codecVars, ackVars, pacerVars, modeVars, workerVars, headerVars,
              lockVars, radioVars, merkleVars, deviceVars, proofVars,
              sweeperVars>>
notMode == <<registryVars, shareVars, frameVars, mapVars, balanceVars,
             codecVars, ackVars, pacerVars, tunerVars, workerVars, headerVars,
             lockVars, radioVars, merkleVars, deviceVars, proofVars,
             sweeperVars>>
notWorker == <<registryVars, shareVars, frameVars, mapVars, balanceVars,
               codecVars, ackVars, pacerVars, tunerVars, modeVars, headerVars,
               lockVars, radioVars, merkleVars, deviceVars, proofVars,
               sweeperVars>>
notHeader == <<registryVars, shareVars, frameVars, mapVars, balanceVars,
               codecVars, ackVars, pacerVars, tunerVars, modeVars, workerVars,
               lockVars, radioVars, merkleVars, deviceVars, proofVars,
               sweeperVars>>
notLock == <<registryVars, shareVars, frameVars, mapVars, balanceVars,
             codecVars, ackVars, pacerVars, tunerVars, modeVars, workerVars,
             headerVars, radioVars, merkleVars, deviceVars, proofVars,
             sweeperVars>>
notRadio == <<registryVars, shareVars, frameVars, mapVars, balanceVars,
              codecVars, ackVars, pacerVars, tunerVars, modeVars, workerVars,
              headerVars, lockVars, merkleVars, deviceVars, proofVars,
              sweeperVars>>
notMerkle == <<registryVars, shareVars, frameVars, mapVars, balanceVars,
               codecVars, ackVars, pacerVars, tunerVars, modeVars, workerVars,
               headerVars, lockVars, radioVars, deviceVars, proofVars,
               sweeperVars>>
notDevice == <<shareVars, frameVars, mapVars, balanceVars, codecVars, ackVars,
               pacerVars, tunerVars, modeVars, workerVars, headerVars,
               lockVars, radioVars, merkleVars, proofVars, sweeperVars>>
notProof == <<registryVars, shareVars, frameVars, mapVars, balanceVars,
              codecVars, ackVars, pacerVars, tunerVars, modeVars, workerVars,
              headerVars, lockVars, radioVars, merkleVars, deviceVars,
              sweeperVars>>
notSweeper == <<registryVars, shareVars, frameVars, mapVars, balanceVars,
                codecVars, ackVars, pacerVars, modeVars, workerVars,
                headerVars, lockVars, radioVars, merkleVars, deviceVars,
                proofVars>>
notMerkleBalance == <<registryVars, shareVars, frameVars, mapVars, codecVars,
                      ackVars, pacerVars, tunerVars, modeVars, workerVars,
                      headerVars, lockVars, radioVars, deviceVars, proofVars,
                      sweeperVars>>

coreVars == <<registryVars, shareVars, frameVars, mapVars>>

vars == <<coreVars, extVars>>

ZeroSlave ==
    [state |-> SLAVE_STATE_DISCONNECTED, hostname |-> 0, mac |-> NoMac,
     last_heartbeat |-> 0, last_work_sent |-> 0,
     nonce_range_start |-> WZero, nonce_range_size |-> WZero]

NoWork == [job_id |-> 0, pool_id |-> 0, extranonce2_len |-> 0]

NoTx ==
    [valid |-> FALSE, target_slave_id |-> 0, target_state |-> SLAVE_STATE_DISCONNECTED]

NoFrame ==
    [valid |-> FALSE, target_slave_id |-> 0,
     job_id |-> 0, pool_id |-> 0, nonce_start |-> WZero, nonce_end |-> WZero,
     extranonce2 |-> [k \in 0 .. 7 |-> 0], extranonce2_len |-> 0]

NoSend == [frame |-> NoFrame, attempt |-> 0]

NoReg ==
    [slot |-> 0, hostname |-> 0, mac |-> NoMac,
     old_state |-> SLAVE_STATE_DISCONNECTED, old_hostname |-> 0, old_mac |-> NoMac]

TaskIds == {"rx", "stratum", "coord"}

IdleTask ==
    [pc |-> "idle", list |-> <<>>, work |-> NoWork, snd |-> NoSend,
     needs_recalc |-> FALSE, reg |-> NoReg]

IsActive(i) == slaves[i].state = SLAVE_STATE_ACTIVE

ActiveSet == {i \in Slots : IsActive(i)}

\* ------------------------------------------------------------------------
\* Partitioner
\* ------------------------------------------------------------------------

\* A partition that divides 2^32 instead of 0xFFFFFFFF (the quotient
\* truncated to uint32_t).
RangeSizeOfTwoPow32(active_count) == U32(WDiv(TwoPow32, 1 + active_count))

\* range_size = 0xFFFFFFFF / total_nodes
RangeSize(active_count) == WDiv(NONCE_SPACE, 1 + active_count)

\* slot number of active slave i: 1 + the number of active slaves before it
SlotOf(sl, i) ==
    1 + Cardinality({j \in Slots : j < i /\ sl[j].state = SLAVE_STATE_ACTIVE})

calculate_nonce_ranges(sl) ==
    LET active_count ==
            Cardinality({j \in Slots : sl[j].state = SLAVE_STATE_ACTIVE})
        range_size == RangeSize(active_count)
    IN [i \in Slots |->
          IF sl[i].state = SLAVE_STATE_ACTIVE
          THEN [sl[i] EXCEPT
                  !.nonce_range_start = U32(WMul(SlotOf(sl, i), range_size)),
                  !.nonce_range_size = range_size]
          ELSE sl[i]]

\* The Coordinator's own slot: [0, range_size - 1] with the range size of the
\* number of Active slaves at the time of the call.
cluster_master_get_local_nonce_range ==
    LET range_size == RangeSize(Cardinality(ActiveSet))
    IN [nonce_start |-> WZero, nonce_end |-> U32Dec(range_size),
        size |-> range_size]

\* ------------------------------------------------------------------------
\* Extranonce2
\* ------------------------------------------------------------------------

ZeroEn2 == [k \in 0 .. 7 |-> 0]

\* A generator that writes the id itself into byte 0.
generate_extranonce2_without_offset(slave_id, extranonce2, len, t_ms) ==
    [k \in 0 .. 7 |->
        IF k = 0 /\ len >= 1 THEN slave_id % 256
        ELSE IF k < len THEN 0
        ELSE extranonce2[k]]

\* memset(extranonce2, 0, len); byte 0 = slave_id + 1 when len >= 1; bytes
\* 1..3 = seconds since boot when len >= 4.
generate_extranonce2_for_slave(slave_id, extranonce2, len, t_ms) ==
    LET ts == t_ms \div 1000
    IN [k \in 0 .. 7 |->
          IF k = 0 /\ len >= 1 THEN (slave_id + 1) % 256
          ELSE IF k = 1 /\ len >= 4 THEN (ts \div 65536) % 256
          ELSE IF k = 2 /\ len >= 4 THEN (ts \div 256) % 256
          ELSE IF k = 3 /\ len >= 4 THEN ts % 256
          ELSE IF k < len THEN 0
          ELSE extranonce2[k]]

\* ------------------------------------------------------------------------
\* Initial state (cluster_master_init)
\* ------------------------------------------------------------------------

InitRegistry ==
    /\ slaves = [i \in Slots |-> ZeroSlave]
    /\ slave_count = 0
    /\ work_valid = FALSE
    /\ current_work = NoWork
    /\ now = 0
    /\ tasks = [t \in TaskIds |-> IdleTask]
    /\ lastTx = NoTx
    /\ recalcDone = FALSE
    /\ jobsIssued = 0

\* ------------------------------------------------------------------------
\* Share fan-in: initial state
\* ------------------------------------------------------------------------

NoSlave == 0 - 1

NoRecent ==
    [valid |-> FALSE, nonce |-> 0, job_id |-> 0, slave_id |-> 0,
     receptions |-> 0, queued |-> FALSE]

NoPending ==
    [valid |-> FALSE, send_uid |-> 0, slave_id |-> 0, pool_id |-> 0, sock |-> 0]

NoSubmit ==
    [valid |-> FALSE, sock |-> 0, mined_pool |-> 0, secondary_connected |-> FALSE]

NoResult ==
    [valid |-> FALSE, sock |-> 0, owner |-> NoSlave, credited |-> NoSlave,
     cleared_sock |-> 0]


InitShares ==
    /\ recent_shares = [i \in 0 .. (RECENT_SHARES_SIZE - 1) |-> NoRecent]
    /\ recent_shares_idx = 0
    /\ share_queue = <<>>
    /\ pending_cluster_shares = [i \in 0 .. (MAX_PENDING_SHARES - 1) |-> NoPending]
    /\ pending_share_index = 0
    /\ send_uid = 1
    /\ send_uid_secondary = 1
    /\ secondary_connected = TRUE
    /\ share_count = [i \in Slots |-> [accepted |-> 0, rejected |-> 0]]
    /\ outstanding = {}
    /\ lastSubmit = NoSubmit
    /\ lastResult = NoResult

\* ------------------------------------------------------------------------
\* Receive paths: initial state
\* ------------------------------------------------------------------------

NoRx == [path |-> "none", frame |-> <<>>, outcome |-> "none", handler |-> {}]

InitFrames == lastRx = NoRx

\* ------------------------------------------------------------------------
\* Job table: initial state
\* ------------------------------------------------------------------------

NoMapping == [valid |-> FALSE, numeric_id |-> 0, pool_id |-> 0, job_id_str |-> 0]

NoProbe ==
    [set |-> FALSE, numeric_id |-> 0, pool_id |-> 0, job_id_str |-> 0,
     since |-> 0, key_reused |-> FALSE, id_reused |-> FALSE]

InitJobMap ==
    /\ job_mappings = [i \in 0 .. (MAX_JOB_MAPPINGS - 1) |-> NoMapping]
    /\ job_mapping_index = 0
    /\ probe = NoProbe

\* The counters are zero-initialised statics; pool_balance is the setting
\* held in GlobalState.
InitBalance ==
    /\ pool_balance = 0
    /\ cluster_primary_distributed = 0
    /\ cluster_secondary_distributed = 0
    /\ offered = 0

NoCodec == [kind |-> "none"]

InitCodec == codec = NoCodec

NoReply == [ret |-> "none", acks |-> <<>>, full |-> FALSE, unchanged |-> TRUE]

InitAck == reply = NoReply

AUTO_TIMING_DISABLED == "Disabled"
AUTO_TIMING_CALIBRATING == "Calibrating"
AUTO_TIMING_MONITORING == "Monitoring"
AUTO_TIMING_LOCKED == "Locked"

\* A rejection rate in percent is the pair <<p, q>> with the value p / q.
RateZero == <<0, 1>>
RateWorst == <<100, 1>>

NoSweep ==
    [steps |-> 0, any |-> FALSE, rate |-> RateZero, interval |-> 0,
     done |-> FALSE, applied |-> 0]

\* Before auto_timing_init the module holds zeroes.
InitPacer ==
    /\ at = [enabled |-> FALSE, min_interval_ms |-> 0, max_interval_ms |-> 0,
             current_interval_ms |-> 0, optimal_interval_ms |-> 0,
             state |-> AUTO_TIMING_DISABLED,
             window_shares_accepted |-> 0, window_shares_rejected |-> 0,
             window_start_time |-> 0, last_adjustment_time |-> 0,
             calibration_step |-> 0, calibration_start_time |-> 0,
             best_rejection_rate |-> RateZero, best_interval |-> 0,
             current_rejection_rate |-> RateZero]
    /\ nvs_job_interval = 0
    /\ pacer_pc = "boot"
    /\ pacer_now = 0
    /\ sweep = NoSweep

AUTOTUNE_STATE_IDLE == "Idle"
AUTOTUNE_STATE_STARTING == "Starting"
AUTOTUNE_STATE_TESTING == "Testing"
AUTOTUNE_STATE_STABILIZING == "Stabilizing"
AUTOTUNE_STATE_LOCKED == "Locked"

AUTOTUNE_MODE_EFFICIENCY == "Efficiency"
AUTOTUNE_MODE_HASHRATE == "Hashrate"
AUTOTUNE_MODE_BALANCED == "Balanced"

\* An efficiency in J/TH is the pair <<p, q>> with the value p / q.
INVALID_EFFICIENCY == <<999999, 1>>

NoGrid ==
    [tested |-> 0, any |-> FALSE, unique |-> FALSE, efficiency |-> INVALID_EFFICIENCY,
     frequency |-> 0, voltage |-> 0, vin_skipped |-> FALSE, complete |-> FALSE]

NoWatch ==
    [seen |-> FALSE, current_freq |-> 0, current_voltage |-> 0, temp |-> 0,
     vin |-> 0, before |-> [frequency |-> 0, voltage |-> 0]]

IdleTune ==
    [pc |-> "none", cell |-> 0, best_efficiency |-> INVALID_EFFICIENCY,
     best_freq |-> 0, best_voltage |-> 0, best_hashrate |-> 0]

IdleStopper == [pc |-> "idle", apply_best |-> FALSE, claimed |-> FALSE]

\* cluster_autotune_init, and a device that runs at 525 MHz and 1150 mV.
InitTuner ==
    /\ g_autotune = [state |-> AUTOTUNE_STATE_IDLE, mode |-> AUTOTUNE_MODE_EFFICIENCY,
                     best_frequency |-> 0, best_voltage |-> 0,
                     current_frequency |-> 0, current_voltage |-> 0,
                     tests_completed |-> 0, tests_total |-> 0,
                     task_running |-> FALSE, task_handle |-> FALSE,
                     watchdog_enabled |-> FALSE, watchdog_running |-> FALSE,
                     watchdog_last_freq |-> 0, watchdog_last_voltage |-> 0]
    /\ mutex = "none"
    /\ hw = [frequency |-> 525, voltage |-> 1150]
    /\ tune = IdleTune
    /\ stopper = IdleStopper
    /\ grid = NoGrid
    /\ wd = NoWatch

InitMode ==
    /\ g_cluster_mode = 0
    /\ nvs_mode = 0 - 1
    /\ firmware = "none"
    /\ mode_call = [mode |-> 0, was |-> 0, ret |-> "none"]

InitWorker ==
    /\ g_slave = [registered |-> FALSE, my_id |-> 255, work_valid |-> FALSE,
                  current_work |-> [target_slave_id |-> 0, job_id |-> 0,
                                    extranonce2 |-> <<0, 0, 0, 0, 0, 0, 0, 0>>,
                                    extranonce2_len |-> 0]]
    /\ worker_notify = FALSE
    /\ wtask = [pc |-> "wait",
                work |-> [target_slave_id |-> 0, job_id |-> 0,
                          extranonce2 |-> <<0, 0, 0, 0, 0, 0, 0, 0>>,
                          extranonce2_len |-> 0],
                last_job_id |-> 0,
                last_extranonce2 |-> <<0, 0, 0, 0, 0, 0, 0, 0>>,
                last_en2_len |-> 0]
    /\ asic_jobs = <<>>
    /\ found_share = [found_by |-> 0, nonce |-> 0, job_id |-> 0,
                      extranonce2 |-> <<0, 0, 0, 0, 0, 0, 0, 0>>,
                      extranonce2_len |-> 0]
    /\ slave_recent_shares = {}
    /\ frames_rx = [work |-> 0, finds |-> 0]

InitHeader ==
    /\ stored_header = <<0, 0, 0, 0, 0, 0>>
    /\ header_valid = FALSE
    /\ storer = [pc |-> "idle", pos |-> 1, notify |-> 0]
    /\ copiers = [t \in {"coord", "rx"} |->
                    [pc |-> "idle", pos |-> 1, hdr |-> <<0, 0, 0, 0, 0, 0>>]]
    /\ clwrk = [by |-> "none", hdr |-> <<0, 0, 0, 0, 0, 0>>]

InitLocks ==
    /\ slaves_mutex = "none"
    /\ callers = [t \in {"rx", "stratum", "coord"} |->
                    [todo |-> <<>>, sending |-> FALSE]]

InitRadio ==
    /\ send_mutex = "none"
    /\ send_sem = [given |-> FALSE, of |-> "none"]
    /\ last_send_status = FALSE
    /\ in_flight = <<>>
    /\ senders = [t \in {"rx", "stratum", "coord"} |-> "idle"]
    /\ consumed = [by |-> "none", of |-> "none"]

InitMerkle ==
    /\ g_stored_notify = [pool_id \in {0, 1} |-> 0]
    /\ work_origin = [valid |-> FALSE, notify |-> 0, pool_id |-> 0]
    /\ clwrk_origin = [sent |-> FALSE, notify |-> 0, pool_id |-> 0,
                       merkle_of |-> 0, resent |-> FALSE]

\* cluster_slave_init: registered false, my_id 0xFF.
InitDevices ==
    devices = [d \in {1, 2} |-> [registered |-> FALSE, my_id |-> 255]]

\* Both rings are zero-initialised statics.
InitProofs ==
    /\ proofs_found = {}
    /\ worker_ring = [idx |-> 0, entries |-> [i \in 0 .. 1 |-> <<>>]]
    /\ clshr_link = <<>>
    /\ master_ring = [idx |-> 0, entries |-> [i \in 0 .. 1 |-> <<>>]]
    /\ to_stratum = {}

\* No task of cluster_autotune_task exists before the first start.
InitSweepers ==
    sweepers = [i \in 1 .. 2 |->
                  [pc |-> "none", tested |-> 0, frequency |-> 0, voltage |-> 0]]

InitExt ==
    /\ InitBalance /\ InitCodec /\ InitAck /\ InitPacer /\ InitTuner
    /\ InitMode /\ InitWorker /\ InitHeader /\ InitLocks
    /\ InitRadio /\ InitMerkle /\ InitDevices /\ InitProofs
    /\ InitSweepers

Init == InitRegistry /\ InitShares /\ InitFrames /\ InitJobMap /\ InitExt

\* ------------------------------------------------------------------------
\* send_work_to_slave
\* ------------------------------------------------------------------------

\* The frame send_work_to_slave builds for slave_id from *work and the slot.
BuildWorkFrame(slave_id, work) ==
    [valid |-> TRUE,
     target_slave_id |-> slave_id,
     job_id |-> work.job_id,
     pool_id |-> work.pool_id,
     nonce_start |-> slaves[slave_id].nonce_range_start,
     nonce_end |-> U32Dec(U32(WAdd(slaves[slave_id].nonce_range_start,
                                   slaves[slave_id].nonce_range_size))),
     extranonce2 |-> generate_extranonce2_for_slave(slave_id, ZeroEn2,
                                                    work.extranonce2_len, now),
     extranonce2_len |-> work.extranonce2_len]

\* The work a task hands to send_work_to_slave: the stratum task passes its
\* own copy of the notify, the other two pass &g_master->current_work.
WorkArg(t) == IF t = "stratum" THEN tasks[t].work ELSE current_work

\* A task whose target list is exhausted returns from its handler (the
\* supervisor goes to sleep for its 1 s period).
AfterSend(t, rest) ==
    IF rest = <<>> THEN [tasks EXCEPT ![t] = IdleTask]
    ELSE [tasks EXCEPT ![t].pc = "loop", ![t].list = rest, ![t].snd = NoSend,
                       ![t].needs_recalc = FALSE, ![t].reg = NoReg]

\* Entry of send_work_to_slave for the head of the task's target list: the
\* state check, and the frame built for the slot.
SendBegin(t) ==
    /\ tasks[t].pc = "loop"
    /\ tasks[t].list # <<>>
    /\ LET id == Head(tasks[t].list)
       IN IF slaves[id].state # SLAVE_STATE_ACTIVE
          THEN tasks' = AfterSend(t, Tail(tasks[t].list))
          ELSE tasks' = [tasks EXCEPT
                           ![t].pc = "tx",
                           ![t].snd = [frame |-> BuildWorkFrame(id, WorkArg(t)),
                                       attempt |-> 0]]
    /\ recalcDone' = FALSE
    /\ UNCHANGED <<shareVars, frameVars, mapVars, extVars>>
    /\ UNCHANGED <<slaves, slave_count, work_valid, current_work, now,
                   lastTx, jobsIssued>>

\* One pass of the retry loop: a broadcast that succeeds or fails, then the
\* 20 ms delay; after the last pass last_work_sent is set when the last
\* broadcast returned ESP_OK.
SendAttempt(t) ==
    /\ tasks[t].pc = "tx"
    /\ \E ok \in BOOLEAN :
         LET snd == tasks[t].snd
             id == snd.frame.target_slave_id
             last == (snd.attempt + 1 = SEND_ATTEMPTS)
         IN /\ lastTx' =
                 IF ok THEN [valid |-> TRUE, target_slave_id |-> id,
                             target_state |-> slaves[id].state]
                 ELSE lastTx
            /\ IF last
               THEN /\ tasks' = AfterSend(t, Tail(tasks[t].list))
                    /\ slaves' = IF ok
                                 THEN [slaves EXCEPT ![id].last_work_sent = now]
                                 ELSE slaves
               ELSE /\ tasks' = [tasks EXCEPT ![t].snd.attempt = @ + 1]
                    /\ slaves' = slaves
    /\ recalcDone' = FALSE
    /\ UNCHANGED <<shareVars, frameVars, mapVars, extVars>>
    /\ UNCHANGED <<slave_count, work_valid, current_work, now, jobsIssued>>

\* calculate_nonce_ranges() called by task t, under the registry mutex.
Recalculate(t, next_pc) ==
    /\ slaves' = calculate_nonce_ranges(slaves)
    /\ recalcDone' = TRUE
    /\ UNCHANGED <<shareVars, frameVars, mapVars, extVars>>
    /\ tasks' = IF next_pc = "loop"
                THEN AfterSend(t, tasks[t].list)
                ELSE [tasks EXCEPT ![t].pc = next_pc]

\* Ascending sequence of the ids in S.
RECURSIVE Ascending(_)
Ascending(S) ==
    IF S = {} THEN <<>>
    ELSE LET m == CHOOSE x \in S : \A y \in S : x <= y
         IN <<m>> \o Ascending(S \ {m})

\* ------------------------------------------------------------------------
\* Registration (handle_registration_internal), on the receive task
\* ------------------------------------------------------------------------

SetMin(S) == CHOOSE x \in S : \A y \in S : x <= y

\* A slot search that takes the first occupied slot without comparing it
\* with the registrant.
FindSlotWithoutCompare(hostname, mac) ==
    LET occupied == {i \in Slots : slaves[i].state # SLAVE_STATE_DISCONNECTED}
        free == {i \in Slots : slaves[i].state = SLAVE_STATE_DISCONNECTED}
    IN IF occupied # {} THEN SetMin(occupied)
       ELSE IF free # {} THEN SetMin(free)
       ELSE -1

\* The slot-search loop: the first non-Disconnected slot whose MAC (when one
\* is given) or hostname matches ends the search; otherwise the first
\* Disconnected slot; otherwise -1.
FindSlot(hostname, mac) ==
    LET matching == {i \in Slots :
                        /\ slaves[i].state # SLAVE_STATE_DISCONNECTED
                        /\ \/ (mac # NoMac /\ slaves[i].mac = mac)
                           \/ slaves[i].hostname = hostname}
        free == {i \in Slots : slaves[i].state = SLAVE_STATE_DISCONNECTED}
    IN IF matching # {} THEN SetMin(matching)
       ELSE IF free # {} THEN SetMin(free)
       ELSE -1

\* The mutex section of handle_registration_internal. On ESP_ERR_NO_MEM the
\* handler returns at once; otherwise the CLACK is sent (to the registrant's
\* MAC or over the UART, which touches none of this state) and the handler
\* goes on to recompute the partition.
Register(hostname, mac) ==
    /\ tasks["rx"].pc = "idle"
    /\ slave_count < MaxSlaveCount
    /\ LET slot == FindSlot(hostname, mac)
       IN IF slot < 0
          THEN UNCHANGED <<slaves, slave_count, tasks>>
          ELSE /\ slaves' = [slaves EXCEPT
                               ![slot].state = SLAVE_STATE_ACTIVE,
                               ![slot].hostname = hostname,
                               ![slot].mac = mac,
                               ![slot].last_heartbeat = now]
               /\ slave_count' = (slave_count + 1) % 256
               /\ tasks' = [tasks EXCEPT
                              !["rx"].pc = "calc",
                              !["rx"].reg =
                                  [slot |-> slot, hostname |-> hostname, mac |-> mac,
                                   old_state |-> slaves[slot].state,
                                   old_hostname |-> slaves[slot].hostname,
                                   old_mac |-> slaves[slot].mac]]
    /\ recalcDone' = FALSE
    /\ UNCHANGED <<shareVars, frameVars, mapVars, extVars>>
    /\ UNCHANGED <<work_valid, current_work, now, lastTx, jobsIssued>>

\* calculate_nonce_ranges(), then the current work goes to the new slot when
\* there is one.
RegisterRecalc ==
    /\ tasks["rx"].pc = "calc"
    /\ slaves' = calculate_nonce_ranges(slaves)
    /\ recalcDone' = TRUE
    /\ UNCHANGED <<shareVars, frameVars, mapVars, extVars>>
    /\ tasks' = IF work_valid
                THEN AfterSend("rx", <<tasks["rx"].reg.slot>>)
                ELSE [tasks EXCEPT !["rx"] = IdleTask]
    /\ UNCHANGED <<slave_count, work_valid, current_work, now, lastTx,
                   jobsIssued>>

\* ------------------------------------------------------------------------
\* Heartbeat, on the receive task: cluster_master_update_slave_mac (ESP-NOW
\* only, mac # NoMac), then cluster_master_handle_heartbeat_ex
\* ------------------------------------------------------------------------

cluster_master_update_slave_mac(sl, slave_id, mac) ==
    IF sl[slave_id].state # SLAVE_STATE_DISCONNECTED /\ sl[slave_id].mac # mac
    THEN [sl EXCEPT ![slave_id].mac = mac]
    ELSE sl

Heartbeat(slave_id, mac) ==
    /\ tasks["rx"].pc = "idle"
    /\ slaves[slave_id].state = SLAVE_STATE_DISCONNECTED => slave_count < MaxSlaveCount
    /\ LET sl == IF mac # NoMac
                 THEN cluster_master_update_slave_mac(slaves, slave_id, mac)
                 ELSE slaves
       IN /\ slaves' = [sl EXCEPT ![slave_id].state = SLAVE_STATE_ACTIVE,
                                  ![slave_id].last_heartbeat = now]
          /\ slave_count' =
                IF sl[slave_id].state = SLAVE_STATE_DISCONNECTED
                THEN (slave_count + 1) % 256
                ELSE slave_count
    /\ recalcDone' = FALSE
    /\ UNCHANGED <<shareVars, frameVars, mapVars, extVars>>
    /\ UNCHANGED <<work_valid, current_work, now, tasks, lastTx, jobsIssued>>

\* ------------------------------------------------------------------------
\* Work fan-out (cluster_master_distribute_work), on the stratum task
\* ------------------------------------------------------------------------

\* A notify the balancer let through: current_work is overwritten.
DistributeStore(pool_id, en2_len) ==
    /\ tasks["stratum"].pc = "idle"
    /\ jobsIssued < MaxJobs
    /\ LET work == [job_id |-> jobsIssued + 1, pool_id |-> pool_id,
                    extranonce2_len |-> en2_len]
       IN /\ current_work' = work
          /\ tasks' = [tasks EXCEPT !["stratum"].pc = "calc",
                                    !["stratum"].work = work]
    /\ work_valid' = TRUE
    /\ jobsIssued' = jobsIssued + 1
    /\ recalcDone' = FALSE
    /\ UNCHANGED <<shareVars, frameVars, mapVars, extVars>>
    /\ UNCHANGED <<slaves, slave_count, now, lastTx>>

DistributeRecalc ==
    /\ tasks["stratum"].pc = "calc"
    /\ Recalculate("stratum", "snap")
    /\ UNCHANGED <<slave_count, work_valid, current_work, now, lastTx,
                   jobsIssued>>

\* The ids of the Active slaves are copied under the mutex.
DistributeSnapshot ==
    /\ tasks["stratum"].pc = "snap"
    /\ tasks' = [tasks EXCEPT !["stratum"].pc = "loop",
                              !["stratum"].list = Ascending(ActiveSet)]
    /\ recalcDone' = FALSE
    /\ UNCHANGED <<shareVars, frameVars, mapVars, extVars>>
    /\ UNCHANGED <<slaves, slave_count, work_valid, current_work, now,
                   lastTx, jobsIssued>>

\* ------------------------------------------------------------------------
\* Supervisor (coordinator_task)
\* ------------------------------------------------------------------------

\* A rebroadcast test that measures the wrong timestamp.
NeedsWorkByHeartbeat(s) ==
    /\ s.state = SLAVE_STATE_ACTIVE
    /\ now - s.last_heartbeat <= CLUSTER_HEARTBEAT_MS * 2
    /\ work_valid
    /\ now - s.last_heartbeat > WORK_REBROADCAST_INTERVAL_MS

\* A scan that gives a slot up as soon as it would be stale.
ScanSlotWithoutGrace(s) ==
    LET elapsed == now - s.last_heartbeat
    IN IF s.state = SLAVE_STATE_DISCONNECTED THEN s
       ELSE IF elapsed > CLUSTER_HEARTBEAT_MS * 2
            THEN [s EXCEPT !.state = SLAVE_STATE_DISCONNECTED]
       ELSE s

\* One slot of the scan.
ScanSlot(s) ==
    LET elapsed == now - s.last_heartbeat
    IN IF s.state = SLAVE_STATE_DISCONNECTED THEN s
       ELSE IF elapsed > CLUSTER_TIMEOUT_MS
            THEN [s EXCEPT !.state = SLAVE_STATE_DISCONNECTED]
       ELSE IF elapsed > CLUSTER_HEARTBEAT_MS * 2 /\ s.state = SLAVE_STATE_ACTIVE
            THEN [s EXCEPT !.state = SLAVE_STATE_STALE]
       ELSE s

TimedOut(s) ==
    /\ s.state # SLAVE_STATE_DISCONNECTED
    /\ now - s.last_heartbeat > CLUSTER_TIMEOUT_MS

NeedsWork(s) ==
    /\ s.state = SLAVE_STATE_ACTIVE
    /\ now - s.last_heartbeat <= CLUSTER_HEARTBEAT_MS * 2
    /\ work_valid
    /\ now - s.last_work_sent > WORK_REBROADCAST_INTERVAL_MS

\* The mutex section of one pass of coordinator_task.
CoordScan ==
    /\ tasks["coord"].pc = "idle"
    /\ LET gone == {i \in Slots : TimedOut(slaves[i])}
           needing == {i \in Slots : NeedsWork(slaves[i])}
       IN /\ slaves' = [i \in Slots |-> ScanSlot(slaves[i])]
          /\ slave_count' = (slave_count + 256 * CLUSTER_MAX_SLAVES
                               - Cardinality(gone)) % 256
          /\ tasks' = IF gone # {}
                      THEN [tasks EXCEPT !["coord"].pc = "calc",
                                         !["coord"].needs_recalc = TRUE,
                                         !["coord"].list = Ascending(needing)]
                      ELSE AfterSend("coord", Ascending(needing))
    /\ recalcDone' = FALSE
    /\ UNCHANGED <<shareVars, frameVars, mapVars, extVars>>
    /\ UNCHANGED <<work_valid, current_work, now, lastTx, jobsIssued>>

CoordRecalc ==
    /\ tasks["coord"].pc = "calc"
    /\ Recalculate("coord", "loop")
    /\ UNCHANGED <<slave_count, work_valid, current_work, now, lastTx,
                   jobsIssued>>

\* ------------------------------------------------------------------------
\* Time
\* ------------------------------------------------------------------------

Tick ==
    /\ now + TickMs <= MaxTicks * TickMs
    /\ now' = now + TickMs
    /\ recalcDone' = FALSE
    /\ UNCHANGED <<shareVars, frameVars, mapVars, extVars>>
    /\ UNCHANGED <<slaves, slave_count, work_valid, current_work, tasks,
                   lastTx, jobsIssued>>

\* ------------------------------------------------------------------------
\* Specification of the Coordinator
\* ------------------------------------------------------------------------

\* A device registers under its own hostname and link address, at start-up.
Join(d) == now = 0 /\ Register(d, d)

\* A device that has registered sends a heartbeat for its slot, from the link
\* address the slot holds.
DeviceHeartbeat(i) == slaves[i].hostname # 0 /\ Heartbeat(i, slaves[i].mac)

Next ==
    \/ \E d \in 1 .. NumDevices : Join(d)
    \/ RegisterRecalc
    \/ \E i \in Slots : DeviceHeartbeat(i)
    \/ \E l \in En2Lens : DistributeStore(0, l)
    \/ DistributeRecalc
    \/ DistributeSnapshot
    \/ CoordScan
    \/ CoordRecalc
    \/ \E t \in TaskIds : SendBegin(t)
    \/ \E t \in TaskIds : SendAttempt(t)
    \/ Tick

Spec == Init /\ [][Next]_vars

\* ------------------------------------------------------------------------
\* Specification of the registry alone: any hostname with any link address
\* (or none) registers, heartbeats come from any address, no pool job is
\* delivered.
\* ------------------------------------------------------------------------

NextRegistry ==
    \/ \E h \in Hostnames, m \in Macs \cup {NoMac} : Register(h, m)
    \/ RegisterRecalc
    \/ \E i \in Slots, m \in Macs \cup {NoMac} : Heartbeat(i, m)
    \/ CoordScan
    \/ CoordRecalc
    \/ Tick

SpecRegistry == Init /\ [][NextRegistry]_vars

\* ------------------------------------------------------------------------
\* Specification of the rebroadcast: one device, one pool job, and a
\* supervisor that keeps running. coordinator_task is a FreeRTOS task whose
\* loop sleeps with vTaskDelay and takes the registry mutex with
\* portMAX_DELAY, so each of its steps is taken once it can be.
\* ------------------------------------------------------------------------

JoinFirst == Join(1)

CoordSendBegin == SendBegin("coord")

CoordSendAttempt == SendAttempt("coord")

NextRebroadcast ==
    \/ JoinFirst
    \/ RegisterRecalc
    \/ \E i \in Slots : DeviceHeartbeat(i)
    \/ DistributeStore(0, 4)
    \/ DistributeRecalc
    \/ DistributeSnapshot
    \/ CoordScan
    \/ CoordRecalc
    \/ CoordSendBegin
    \/ CoordSendAttempt
    \/ \E t \in TaskIds \ {"coord"} : SendBegin(t)
    \/ \E t \in TaskIds \ {"coord"} : SendAttempt(t)
    \/ Tick

SpecRebroadcast ==
    /\ Init
    /\ [][NextRebroadcast]_vars
    /\ WF_vars(CoordScan)
    /\ WF_vars(CoordRecalc)
    /\ WF_vars(CoordSendBegin)
    /\ WF_vars(CoordSendAttempt)

\* ------------------------------------------------------------------------
\* Share fan-in (cluster_master_receive_share, share_submitter_task,
\* stratum_submit_share_from_cluster, cluster_notify_share_result)
\* ------------------------------------------------------------------------

PoolIds == {0, 1}

\* cluster_protocol_decode_share: the share is zeroed and filled from the
\* fields of the CLSHR payload, which holds no pool id.
cluster_protocol_decode_share(slave_id, job_id, nonce) ==
    [slave_id |-> slave_id, job_id |-> job_id, nonce |-> nonce, pool_id |-> 0]

SameTuple(r, share) ==
    /\ r.valid
    /\ r.nonce = share.nonce
    /\ r.job_id = share.job_id
    /\ r.slave_id = share.slave_id

is_duplicate_share(share) ==
    \E i \in DOMAIN recent_shares : SameTuple(recent_shares[i], share)

\* record_share, with whether the reception it records went into the queue.
record_share(share, queued) ==
    [recent_shares EXCEPT
        ![recent_shares_idx] =
            [valid |-> TRUE, nonce |-> share.nonce, job_id |-> share.job_id,
             slave_id |-> share.slave_id, receptions |-> 1, queued |-> queued]]

\* A CLSHR frame from a worker, mined on work of pool mined_pool. The
\* statistics counters of the handler (shares_submitted, last_seen,
\* total_shares) are left out.
ReceiveShare(slave_id, job_id, nonce, mined_pool) ==
    LET share == cluster_protocol_decode_share(slave_id, job_id, nonce)
        room == Len(share_queue) < SHARE_QUEUE_SIZE
    IN /\ IF share.slave_id >= CLUSTER_MAX_SLAVES
          THEN UNCHANGED <<recent_shares, recent_shares_idx, share_queue>>
          ELSE IF is_duplicate_share(share)
          THEN /\ recent_shares' =
                    [i \in DOMAIN recent_shares |->
                        IF SameTuple(recent_shares[i], share)
                        THEN [recent_shares[i] EXCEPT !.receptions = 2]
                        ELSE recent_shares[i]]
               /\ UNCHANGED <<recent_shares_idx, share_queue>>
          ELSE /\ recent_shares' = record_share(share, room)
               /\ recent_shares_idx' = (recent_shares_idx + 1) % RECENT_SHARES_SIZE
               /\ share_queue' =
                    IF room
                    THEN Append(share_queue, [share |-> share, mined_pool |-> mined_pool])
                    ELSE share_queue
       /\ UNCHANGED <<pending_cluster_shares, pending_share_index, send_uid,
                      send_uid_secondary, secondary_connected, share_count,
                      outstanding, lastSubmit, lastResult>>
       /\ UNCHANGED <<registryVars, frameVars, mapVars, extVars>>

\* Values the pool_id parameter of stratum_submit_share_from_cluster may
\* hold: share_submitter_task calls it through a seven-parameter declaration,
\* so the eighth parameter is whatever the register holds; 0 stands for any
\* byte other than 1, all of which take the branch of the primary pool.
PoolIdArgs == {0, 1}

\* share_submitter_task takes the head of the queue and
\* stratum_submit_share_from_cluster sends it.
SubmitShare(pool_id) ==
    /\ share_queue # <<>>
    /\ (IF pool_id = 1 /\ secondary_connected
        THEN send_uid_secondary ELSE send_uid) <= MaxUid
    /\ LET item == Head(share_queue)
           secondary == (pool_id = 1 /\ secondary_connected)
           sock == IF secondary THEN 1 ELSE 0
           uid == IF secondary THEN send_uid_secondary ELSE send_uid
           idx == pending_share_index % MAX_PENDING_SHARES
       IN /\ share_queue' = Tail(share_queue)
          /\ send_uid' = IF secondary THEN send_uid ELSE send_uid + 1
          /\ send_uid_secondary' =
                IF secondary THEN send_uid_secondary + 1 ELSE send_uid_secondary
          /\ pending_cluster_shares' =
                [pending_cluster_shares EXCEPT
                    ![idx] = [valid |-> TRUE, send_uid |-> uid,
                              slave_id |-> item.share.slave_id,
                              pool_id |-> pool_id, sock |-> sock]]
          /\ pending_share_index' = pending_share_index + 1
          /\ outstanding' = outstanding \cup
                {[sock |-> sock, send_uid |-> uid, slave_id |-> item.share.slave_id]}
          /\ lastSubmit' = [valid |-> TRUE, sock |-> sock,
                            mined_pool |-> item.mined_pool,
                            secondary_connected |-> secondary_connected]
    /\ UNCHANGED <<recent_shares, recent_shares_idx, secondary_connected,
                   share_count, lastResult>>
    /\ UNCHANGED <<registryVars, frameVars, mapVars, extVars>>

\* The first valid pending entry with the message id, or -1.
FindPending(message_id) ==
    LET hits == {i \in DOMAIN pending_cluster_shares :
                    /\ pending_cluster_shares[i].valid
                    /\ pending_cluster_shares[i].send_uid = message_id}
    IN IF hits = {} THEN -1 ELSE CHOOSE i \in hits : \A j \in hits : i <= j

\* cluster_notify_share_result
cluster_notify_share_result(message_id, accepted) ==
    LET i == FindPending(message_id)
    IN IF i < 0
       THEN [pending |-> pending_cluster_shares, counts |-> share_count,
             credited |-> NoSlave, cleared_sock |-> 0]
       ELSE LET e == pending_cluster_shares[i]
            IN [pending |-> [pending_cluster_shares EXCEPT ![i].valid = FALSE],
                counts |-> IF e.slave_id \in Slots
                           THEN IF accepted
                                THEN [share_count EXCEPT ![e.slave_id].accepted = @ + 1]
                                ELSE [share_count EXCEPT ![e.slave_id].rejected = @ + 1]
                           ELSE share_count,
                credited |-> e.slave_id,
                cleared_sock |-> e.sock]

\* A pool answers one of the submits it has received.
PoolResult(req, accepted) ==
    /\ req \in outstanding
    /\ outstanding' = outstanding \ {req}
    /\ LET r == cluster_notify_share_result(req.send_uid, accepted)
       IN /\ pending_cluster_shares' = r.pending
          /\ share_count' = r.counts
          /\ lastResult' = [valid |-> TRUE, sock |-> req.sock,
                            owner |-> req.slave_id,
                            credited |-> r.credited, cleared_sock |-> r.cleared_sock]
    /\ UNCHANGED <<recent_shares, recent_shares_idx, share_queue,
                   pending_share_index, send_uid, send_uid_secondary,
                   secondary_connected, lastSubmit>>
    /\ UNCHANGED <<registryVars, frameVars, mapVars, extVars>>

\* g_global_state->send_uid and send_uid_secondary are shared with the
\* Stratum tasks, which take the ids of their own requests from them: the
\* counter of a socket moves on between two shares.
StratumRequest(sock) ==
    /\ (IF sock = 1 THEN send_uid_secondary ELSE send_uid) < MaxUid
    /\ send_uid' = IF sock = 1 THEN send_uid ELSE send_uid + 1
    /\ send_uid_secondary' =
          IF sock = 1 THEN send_uid_secondary + 1 ELSE send_uid_secondary
    /\ UNCHANGED <<recent_shares, recent_shares_idx, share_queue,
                   pending_cluster_shares, pending_share_index,
                   secondary_connected, share_count, outstanding, lastSubmit,
                   lastResult>>
    /\ UNCHANGED <<registryVars, frameVars, mapVars, extVars>>

\* The connection to the secondary pool comes up or goes down.
SecondaryLink ==
    /\ secondary_connected' = ~secondary_connected
    /\ UNCHANGED <<recent_shares, recent_shares_idx, share_queue,
                   pending_cluster_shares, pending_share_index, send_uid,
                   send_uid_secondary, share_count, outstanding, lastSubmit,
                   lastResult>>
    /\ UNCHANGED <<registryVars, frameVars, mapVars, extVars>>

NextShares ==
    \/ \E i \in 0 .. CLUSTER_MAX_SLAVES, j \in 1 .. MaxJobs, n \in 1 .. MaxNonce,
          p \in PoolIds : ReceiveShare(i, j, n, p)
    \/ \E a \in PoolIdArgs : SubmitShare(a)
    \/ \E req \in outstanding, accepted \in BOOLEAN : PoolResult(req, accepted)
    \/ \E sock \in PoolIds : StratumRequest(sock)
    \/ SecondaryLink

SpecShares == Init /\ [][NextShares]_vars

\* ------------------------------------------------------------------------
\* Receive paths of the Coordinator (cluster_protocol.c, cluster.c,
\* cluster_espnow.c). A frame is a sequence of character codes.
\* ------------------------------------------------------------------------

CLUSTER_MSG_START == 36
CLUSTER_MSG_CHECKSUM == 42
FIELD_SEPARATOR == 44

BAP_MSG_HEARTBEAT == <<67, 76, 72, 66, 84>>
BAP_MSG_SHARE == <<67, 76, 83, 72, 82>>
BAP_MSG_REGISTER == <<67, 76, 82, 69, 71>>
ESPNOW_REGISTER == <<82, 69, 71, 73, 83, 84, 69, 82>>

\* The exclusive or of the characters of str: bit b of the result is the
\* parity of the characters that have bit b set.
XorAll(str) ==
    LET Bit(b) == Cardinality({k \in DOMAIN str : (str[k] \div (2 ^ b)) % 2 = 1}) % 2
    IN Bit(0) + 2 * Bit(1) + 4 * Bit(2) + 8 * Bit(3) + 16 * Bit(4)
         + 32 * Bit(5) + 64 * Bit(6) + 128 * Bit(7)

\* strchr: the first position of ch in str at or after from, 0 when absent.
FirstIndex(str, ch, from) ==
    LET hits == {k \in from .. Len(str) : str[k] = ch}
    IN IF hits = {} THEN 0 ELSE CHOOSE k \in hits : \A l \in hits : k <= l

HexVal(c) ==
    IF c \in 48 .. 57 THEN c - 48
    ELSE IF c \in 65 .. 70 THEN c - 55
    ELSE IF c \in 97 .. 102 THEN c - 87
    ELSE -1

\* (uint8_t)strtol(hex, NULL, 16) of two characters: the value of the
\* longest prefix of hexadecimal digits, 0 when there is none.
StrtolHex(c1, c2) ==
    IF HexVal(c1) < 0 THEN 0
    ELSE IF HexVal(c2) < 0 THEN HexVal(c1)
    ELSE 16 * HexVal(c1) + HexVal(c2)

cluster_protocol_verify_checksum(message) ==
    IF message = <<>> \/ message[1] # CLUSTER_MSG_START THEN FALSE
    ELSE LET end == FirstIndex(message, CLUSTER_MSG_CHECKSUM, 2)
         IN IF end = 0 \/ Len(message) - end < 2 THEN FALSE
            ELSE XorAll(SubSeq(message, 2, end - 1))
                   = StrtolHex(message[end + 1], message[end + 2])

cluster_protocol_parse_message(message) ==
    IF message = <<>> \/ message[1] # CLUSTER_MSG_START
    THEN [err |-> "ESP_ERR_INVALID_ARG", msg_type |-> <<>>]
    ELSE IF ~cluster_protocol_verify_checksum(message)
    THEN [err |-> "ESP_ERR_INVALID_CRC", msg_type |-> <<>>]
    ELSE LET comma == FirstIndex(message, FIELD_SEPARATOR, 2)
         IN IF comma = 0 \/ comma - 2 # 5
            THEN [err |-> "ESP_ERR_INVALID_ARG", msg_type |-> <<>>]
            ELSE [err |-> "ESP_OK", msg_type |-> SubSeq(message, 2, comma - 1)]

cluster_is_cluster_message(message) ==
    /\ Len(message) >= 3
    /\ message[1] = CLUSTER_MSG_START
    /\ message[2] = 67
    /\ message[3] = 76

\* The handler cluster_handle_bap_message routes a type to, in Coordinator
\* mode.
cluster_handle_bap_message(msg_type) ==
    IF msg_type = BAP_MSG_REGISTER THEN {"registration"}
    ELSE IF msg_type = BAP_MSG_HEARTBEAT THEN {"heartbeat"}
    ELSE IF msg_type = BAP_MSG_SHARE THEN {"share"}
    ELSE {}

cluster_handle_espnow_message(msg_type) ==
    IF msg_type = ESPNOW_REGISTER \/ msg_type = BAP_MSG_REGISTER
    THEN {"registration"}
    ELSE cluster_handle_bap_message(msg_type)

\* cluster_on_bap_message_received: a line from the UART.
UartReceive(frame) ==
    /\ lastRx' =
         IF ~cluster_is_cluster_message(frame)
         THEN [path |-> "uart", frame |-> frame, outcome |-> "NotCluster",
               handler |-> {}]
         ELSE LET parsed == cluster_protocol_parse_message(frame)
              IN IF parsed.err # "ESP_OK"
                 THEN [path |-> "uart", frame |-> frame, outcome |-> parsed.err,
                       handler |-> {}]
                 ELSE [path |-> "uart", frame |-> frame, outcome |-> "ESP_OK",
                       handler |-> cluster_handle_bap_message(parsed.msg_type)]
    /\ UNCHANGED <<registryVars, shareVars, mapVars, extVars>>

\* One datagram taken from the queue by espnow_rx_task (a discovery beacon
\* does not start with the frame start and is not a frame of this model).
EspNowReceive(frame) ==
    /\ lastRx' =
         LET comma == FirstIndex(frame, FIELD_SEPARATOR, 1)
             msg_type == SubSeq(frame, 2, comma - 1)
         IN IF frame = <<>> \/ frame[1] # CLUSTER_MSG_START
               \/ comma = 0 \/ comma - 2 >= 16
            THEN [path |-> "espnow", frame |-> frame, outcome |-> "Dropped",
                  handler |-> {}]
            ELSE [path |-> "espnow", frame |-> frame, outcome |-> "ESP_OK",
                  handler |->
                      IF msg_type = ESPNOW_REGISTER THEN {"registration"}
                      ELSE IF msg_type = BAP_MSG_HEARTBEAT
                      THEN {"update_slave_mac"}
                               \cup cluster_handle_espnow_message(msg_type)
                      ELSE cluster_handle_espnow_message(msg_type)]
    /\ UNCHANGED <<registryVars, shareVars, mapVars, extVars>>

HexDigit(n) == IF n < 10 THEN 48 + n ELSE 55 + n

\* cluster_protocol_calc_checksum, written as the encoders write it ("%02X").
ChecksumOf(body) ==
    <<HexDigit(XorAll(body) \div 16), HexDigit(XorAll(body) % 16)>>

\* The next hexadecimal digit, cyclically.
OtherHexDigit(c) == HexDigit((HexVal(c) + 1) % 16)

\* What may follow the body of a frame from a sender or from a noisy link:
\* the checksum, the checksum with one character changed to another digit
\* or to a character that is no digit, a cut checksum, or nothing.
FrameTails(body) ==
    LET h == ChecksumOf(body)
    IN {<<CLUSTER_MSG_CHECKSUM, h[1], h[2]>>,
        <<CLUSTER_MSG_CHECKSUM, OtherHexDigit(h[1]), h[2]>>,
        <<CLUSTER_MSG_CHECKSUM, h[1], OtherHexDigit(h[2])>>,
        <<CLUSTER_MSG_CHECKSUM, h[1], 71>>,
        <<CLUSTER_MSG_CHECKSUM, 71, h[2]>>,
        <<CLUSTER_MSG_CHECKSUM, h[1]>>,
        <<>>}

FrameTypes == {BAP_MSG_HEARTBEAT, BAP_MSG_SHARE, BAP_MSG_REGISTER, ESPNOW_REGISTER}

\* Bodies: a type and a one-character payload (the id 0, 1 or 2).
FrameBodies ==
    {type \o <<FIELD_SEPARATOR>> \o <<id>> : type \in FrameTypes, id \in 48 .. 50}

Frames ==
    UNION {{<<CLUSTER_MSG_START>> \o body \o tail : tail \in FrameTails(body)} :
              body \in FrameBodies}

NextFrames ==
    \/ \E frame \in Frames : UartReceive(frame)
    \/ \E frame \in Frames : EspNowReceive(frame)

SpecFrames == Init /\ [][NextFrames]_vars

\* ------------------------------------------------------------------------
\* Frame encoders and decoders (cluster_protocol.c). Text is a sequence of
\* character codes.
\* ------------------------------------------------------------------------

ESP_OK == "ESP_OK"
ESP_ERR_INVALID_ARG == "ESP_ERR_INVALID_ARG"

BAP_MSG_WORK == <<67, 76, 87, 82, 75>>

\* Bytes of the hashes of a work unit, bytes of the extranonce2 buffer, and
\* the hexadecimal digits of a hash on the wire.
HASH_BYTES == 32
EXTRANONCE2_BYTES == 8
HASH_HEX_CHARS == 64

\* sizeof(field) in the two decoders
WORK_FIELD_LEN == 128
SHARE_FIELD_LEN == 32

\* Smallest buffers the encoders take, and the room they keep free.
WORK_MIN_BUFFER == 200
SHARE_MIN_BUFFER == 100
TRAILER_RESERVE == 10
OPTIONAL_ROOM == 60

\* pool_diff of a frame that carries none
DEFAULT_POOL_DIFF == 512

\* "%u" of a small value
RECURSIVE ToDec(_)
ToDec(n) == IF n < 10 THEN <<48 + n>> ELSE ToDec(n \div 10) \o <<48 + (n % 10)>>

\* "%lu" of a uint32_t
RECURSIVE WToDec(_)
WToDec(w) ==
    LET digit == ((w[1] % 10) * Limb + w[2]) % 10
    IN IF w[1] = 0 /\ w[2] < 10 THEN <<48 + w[2]>>
       ELSE WToDec(WDiv(w, 10)) \o <<48 + digit>>

IsDigit(c) == c \in 48 .. 57

\* strtoul(field, NULL, 10) of a 32-bit unsigned long: the value of the
\* leading digits, ULONG_MAX when it does not fit.
RECURSIVE DigitsValue(_, _, _)
DigitsValue(field, k, acc) ==
    IF k > Len(field) \/ ~IsDigit(field[k]) THEN acc
    ELSE IF acc[1] >= Limb THEN DigitsValue(field, k + 1, acc)
    ELSE DigitsValue(field, k + 1, WAdd(WMul(10, acc), <<0, field[k] - 48>>))

Strtoul(field) ==
    LET v == DigitsValue(field, 1, WZero)
    IN IF v[1] >= Limb THEN NONCE_SPACE ELSE v

\* (uint8_t)strtoul(field, NULL, 10)
StrtoulU8(field) == Strtoul(field)[2] % 256

\* "%02x"
HexLower(n) == IF n < 10 THEN 48 + n ELSE 87 + n

\* cluster_protocol_bytes_to_hex of the first len bytes of a buffer
RECURSIVE cluster_protocol_bytes_to_hex(_, _)
cluster_protocol_bytes_to_hex(bytes, len) ==
    IF len = 0 THEN <<>>
    ELSE cluster_protocol_bytes_to_hex(bytes, len - 1)
           \o <<HexLower(bytes[len] \div 16), HexLower(bytes[len] % 16)>>

\* cluster_protocol_hex_to_bytes: the bytes written, at most max_len
cluster_protocol_hex_to_bytes(hex_str, max_len) ==
    LET byte_len == IF Len(hex_str) \div 2 > max_len THEN max_len
                    ELSE Len(hex_str) \div 2
    IN [i \in 1 .. byte_len |-> StrtolHex(hex_str[2 * i - 1], hex_str[2 * i]) % 256]

\* The fields of a frame, separated by commas.
RECURSIVE JoinFields(_)
JoinFields(fields) ==
    IF Len(fields) = 1 THEN fields[1]
    ELSE fields[1] \o <<FIELD_SEPARATOR>> \o JoinFields(Tail(fields))

\* finalize_message: text is what the buffer holds up to its terminating
\* NUL, payload_len the length the caller passes.
finalize_message(text, buffer_len, payload_len) ==
    LET checksum == XorAll(Tail(text))
        trailer == <<CLUSTER_MSG_CHECKSUM, HexDigit(checksum \div 16),
                     HexDigit(checksum % 16), 13, 10>>
    IN IF Len(trailer) >= buffer_len - payload_len
       THEN [ret |-> 0 - 1, frame |-> <<>>]
       ELSE [ret |-> payload_len + Len(trailer),
             frame |-> SubSeq(text, 1, payload_len) \o trailer]

\* The first snprintf of cluster_protocol_encode_work. en2 holds the bytes
\* cluster_protocol_bytes_to_hex reads: the extranonce2 buffer and, when
\* extranonce2_len exceeds the buffer, what lies behind it.
WorkBody(work, en2) ==
    <<CLUSTER_MSG_START>> \o
    JoinFields(<<BAP_MSG_WORK, ToDec(work.target_slave_id), WToDec(work.job_id),
                 cluster_protocol_bytes_to_hex(work.prev_block_hash, HASH_BYTES),
                 cluster_protocol_bytes_to_hex(work.merkle_root, HASH_BYTES),
                 WToDec(work.version), WToDec(work.version_mask),
                 WToDec(work.nbits), WToDec(work.ntime),
                 WToDec(work.nonce_start), WToDec(work.nonce_end),
                 cluster_protocol_bytes_to_hex(en2, work.extranonce2_len),
                 ToDec(work.extranonce2_len),
                 IF work.clean_jobs THEN <<49>> ELSE <<48>>,
                 WToDec(work.pool_diff)>>)

\* The optional display fields; scriptsig and network_diff_str are empty and
\* go out as "-".
WorkExtras(work) ==
    <<FIELD_SEPARATOR>> \o ToDec(work.block_height)
       \o <<FIELD_SEPARATOR, 45, FIELD_SEPARATOR, 45>>

\* cluster_protocol_encode_work without the room it keeps for the trailer.
cluster_protocol_encode_work_no_reserve(work, en2, buffer_len) ==
    IF buffer_len < WORK_MIN_BUFFER THEN [ret |-> 0 - 1, frame |-> <<>>]
    ELSE LET body == WorkBody(work, en2)
         IN IF Len(body) >= buffer_len
            THEN [ret |-> 0 - 1, frame |-> <<>>]
            ELSE finalize_message(body, buffer_len, Len(body))

cluster_protocol_encode_work(work, en2, buffer_len) ==
    IF buffer_len < WORK_MIN_BUFFER THEN [ret |-> 0 - 1, frame |-> <<>>]
    ELSE LET body == WorkBody(work, en2)
             len == Len(body)
         IN IF len >= buffer_len - TRAILER_RESERVE
            THEN [ret |-> 0 - 1, frame |-> <<>>]
            ELSE LET remaining == buffer_len - len - TRAILER_RESERVE
                     extras == IF remaining > OPTIONAL_ROOM /\ work.block_height > 0
                               THEN WorkExtras(work) ELSE <<>>
                 IN IF Len(extras) < remaining
                    THEN finalize_message(body \o extras, buffer_len,
                                          len + Len(extras))
                    ELSE finalize_message(
                             body \o SubSeq(extras, 1, remaining - 1),
                             buffer_len, len)

cluster_protocol_encode_share(share, en2, buffer_len) ==
    IF buffer_len < SHARE_MIN_BUFFER THEN [ret |-> 0 - 1, frame |-> <<>>]
    ELSE LET body ==
                 <<CLUSTER_MSG_START>> \o
                 JoinFields(<<BAP_MSG_SHARE, ToDec(share.slave_id),
                              WToDec(share.job_id), WToDec(share.nonce),
                              WToDec(share.ntime), WToDec(share.version),
                              cluster_protocol_bytes_to_hex(en2, share.extranonce2_len),
                              ToDec(share.extranonce2_len)>>)
         IN IF Len(body) >= buffer_len - TRAILER_RESERVE
            THEN [ret |-> 0 - 1, frame |-> <<>>]
            ELSE finalize_message(body, buffer_len, Len(body))

\* get_next_field from position p of the payload (0 is NULL): the field and
\* the returned pointer. With p NULL nothing is written to field.
get_next_field(payload, st, max_len) ==
    IF st.p = 0 THEN st
    ELSE LET stops == {k \in st.p .. Len(payload) :
                          \/ payload[k] = FIELD_SEPARATOR
                          \/ payload[k] = CLUSTER_MSG_CHECKSUM
                          \/ k - st.p >= max_len - 1}
             stop == IF stops = {} THEN Len(payload) + 1 ELSE SetMin(stops)
             after == IF stop <= Len(payload) /\ payload[stop] = FIELD_SEPARATOR
                      THEN stop + 1 ELSE stop
         IN [field |-> SubSeq(payload, st.p, stop - 1),
             p |-> IF after <= Len(payload) /\ payload[after] # CLUSTER_MSG_CHECKSUM
                   THEN after ELSE 0]

\* The field buffer and the pointer after each of the first k calls of
\* get_next_field.
RECURSIVE FieldAfter(_, _, _)
FieldAfter(payload, k, max_len) ==
    IF k = 0 THEN <<>>
    ELSE LET before == FieldAfter(payload, k - 1, max_len)
             last == IF k = 1
                     THEN [field |-> <<>>, p |-> IF payload = <<>> THEN 0 ELSE 1]
                     ELSE before[k - 1]
         IN Append(before, get_next_field(payload, last, max_len))

\* The text after the message type and its comma
\* (cluster_protocol_parse_message).
PayloadOf(frame) == SubSeq(frame, 8, Len(frame))

\* cluster_protocol_decode_work, up to pool_diff.
cluster_protocol_decode_work(payload) ==
    LET calls == FieldAfter(payload, 14, WORK_FIELD_LEN)
        F(k) == calls[k]
        en2 == cluster_protocol_hex_to_bytes(F(11).field, EXTRANONCE2_BYTES)
    IN IF F(1).p = 0
            \/ Len(F(3).field) # HASH_HEX_CHARS
            \/ F(3).p = 0
            \/ Len(F(4).field) # HASH_HEX_CHARS
            \/ \E k \in 4 .. 11 : F(k).p = 0
       THEN [err |-> ESP_ERR_INVALID_ARG]
       ELSE [err |-> ESP_OK,
             target_slave_id |-> StrtoulU8(F(1).field),
             job_id |-> Strtoul(F(2).field),
             prev_block_hash |-> cluster_protocol_hex_to_bytes(F(3).field, HASH_BYTES),
             merkle_root |-> cluster_protocol_hex_to_bytes(F(4).field, HASH_BYTES),
             version |-> Strtoul(F(5).field),
             version_mask |-> Strtoul(F(6).field),
             nbits |-> Strtoul(F(7).field),
             ntime |-> Strtoul(F(8).field),
             nonce_start |-> Strtoul(F(9).field),
             nonce_end |-> Strtoul(F(10).field),
             extranonce2 |-> en2,
             extranonce2_len |-> Len(en2),
             clean_jobs |-> (F(13).field # <<>> /\ F(13).field[1] = 49),
             pool_diff |-> IF F(13).p # 0 THEN Strtoul(F(14).field)
                           ELSE <<0, DEFAULT_POOL_DIFF>>]

\* cluster_protocol_decode_share on the text of a payload.
cluster_protocol_decode_share_payload(payload) ==
    LET calls == FieldAfter(payload, 6, SHARE_FIELD_LEN)
        F(k) == calls[k]
        en2 == cluster_protocol_hex_to_bytes(F(6).field, EXTRANONCE2_BYTES)
    IN IF \E k \in 1 .. 5 : F(k).p = 0
       THEN [err |-> ESP_ERR_INVALID_ARG]
       ELSE [err |-> ESP_OK,
             slave_id |-> StrtoulU8(F(1).field),
             job_id |-> Strtoul(F(2).field),
             nonce |-> Strtoul(F(3).field),
             ntime |-> Strtoul(F(4).field),
             version |-> Strtoul(F(5).field),
             extranonce2 |-> en2,
             extranonce2_len |-> Len(en2)]

\* Values of the 32-bit fields of the inputs: one, nine and ten digits.
U32Samples == {<<0, 0>>, <<8192, 0>>, <<65535, 65535>>}

\* Buffers the encoders are called with (send_work_to_slave passes 250).
WorkBufferLens == {199, 512}

\* sizeof(payload) in send_work_to_slave
PAYLOAD_SIZE == 250
ShareBufferLens == {99, 128}

\* Lengths of extranonce2 in a work unit or a share (uint8_t, unchecked).
CodecEn2Lens == {0, 4, 8, 9}

SampleHash(seed) == [k \in 1 .. HASH_BYTES |-> (seed * k + 3) % 256]

SampleEn2 == [k \in 1 .. EXTRANONCE2_BYTES |-> (29 * k + 142) % 256]

WorkInputs ==
    {[target_slave_id |-> id, job_id |-> jr[1], prev_block_hash |-> SampleHash(7),
      merkle_root |-> SampleHash(11), version |-> u, version_mask |-> u,
      nbits |-> u, ntime |-> u, nonce_start |-> jr[2], nonce_end |-> jr[3],
      extranonce2 |-> SampleEn2, extranonce2_len |-> l, clean_jobs |-> c,
      pool_diff |-> d, block_height |-> h] :
        id \in {0, 200}, u \in U32Samples,
        jr \in {<<<<0, 1>>, <<0, 0>>, <<32767, 65534>>>>,
                <<<<65535, 65535>>, <<32767, 65535>>, <<65535, 65533>>>>},
        l \in CodecEn2Lens, c \in BOOLEAN, d \in {<<0, 512>>, <<65535, 65535>>},
        h \in {0, 840000}}

ShareInputs ==
    {[slave_id |-> id, job_id |-> job, nonce |-> n, ntime |-> u, version |-> u,
      extranonce2 |-> SampleEn2, extranonce2_len |-> l] :
        id \in {0, 7}, job \in {<<0, 1>>, <<0, 41393>>},
        n \in {<<0, 0>>, <<43690, 43690>>},
        u \in U32Samples, l \in CodecEn2Lens}

\* The bytes an encoder reads for extranonce2: the buffer, and for a length
\* beyond the buffer the bytes behind it, whatever they hold (junk).
En2Read(value, junk) ==
    [k \in 1 .. (IF value.extranonce2_len > EXTRANONCE2_BYTES
                 THEN value.extranonce2_len ELSE EXTRANONCE2_BYTES) |->
        IF k <= EXTRANONCE2_BYTES THEN value.extranonce2[k] ELSE junk]

\* What is left of a call: with a length beyond the extranonce2 buffer the
\* encoder reads past the buffer and writes past en2_hex[17], so the call
\* either goes on with what it has read or takes the task down (fault).
CodecResult(kind, value, buffer_len, r, decoded, fault) ==
    IF fault /\ value.extranonce2_len > EXTRANONCE2_BYTES
    THEN [kind |-> kind, input |-> value, buffer_len |-> buffer_len,
          outcome |-> "fault", ret |-> 0 - 1, frame |-> <<>>,
          decoded |-> [err |-> "none"], sent |-> <<>>]
    ELSE [kind |-> kind, input |-> value, buffer_len |-> buffer_len,
          outcome |-> IF r.ret < 0 THEN "error" ELSE "frame",
          ret |-> r.ret, frame |-> r.frame,
          decoded |-> IF r.ret < 0 THEN [err |-> "none"] ELSE decoded,
          sent |-> IF kind = "send" /\ r.ret >= 0
                   THEN <<SubSeq(r.frame, 1, r.ret)>> ELSE <<>>]

\* cluster_protocol_encode_work on a work unit, and cluster_protocol_decode_work
\* on the frame it emits.
EncodeWork(work, buffer_len, junk, fault) ==
    /\ codec = NoCodec
    /\ LET r == cluster_protocol_encode_work(work, En2Read(work, junk), buffer_len)
       IN codec' = CodecResult("work", work, buffer_len, r,
                               cluster_protocol_decode_work(PayloadOf(r.frame)),
                               fault)
    /\ UNCHANGED notCodec

EncodeShare(share, buffer_len, junk, fault) ==
    /\ codec = NoCodec
    /\ LET r == cluster_protocol_encode_share(share, En2Read(share, junk), buffer_len)
       IN codec' = CodecResult("share", share, buffer_len, r,
                               cluster_protocol_decode_share_payload(PayloadOf(r.frame)),
                               fault)
    /\ UNCHANGED notCodec

\* send_work_to_slave from the encoding of slave_work on: the frame goes to
\* the transport (sent) unless the encoder has returned an error.
SendWorkFrame(work, junk, fault) ==
    /\ codec = NoCodec
    /\ LET r == cluster_protocol_encode_work(work, En2Read(work, junk), PAYLOAD_SIZE)
       IN codec' = CodecResult("send", work, PAYLOAD_SIZE, r,
                               cluster_protocol_decode_work(PayloadOf(r.frame)),
                               fault)
    /\ UNCHANGED notCodec

\* The caller is done with the result of the call.
CodecReturn ==
    /\ codec # NoCodec
    /\ codec' = NoCodec
    /\ UNCHANGED notCodec

\* What lies behind the extranonce2 buffer matters only to a call that
\* reads it.
JunkFor(value) ==
    IF value.extranonce2_len > EXTRANONCE2_BYTES THEN {0, 255} ELSE {0}

FaultFor(value) ==
    IF value.extranonce2_len > EXTRANONCE2_BYTES THEN BOOLEAN ELSE {FALSE}

NextCodec ==
    \/ \E work \in WorkInputs, b \in WorkBufferLens :
          \E junk \in JunkFor(work), fault \in FaultFor(work) :
             EncodeWork(work, b, junk, fault)
    \/ \E work \in WorkInputs :
          \E junk \in JunkFor(work), fault \in FaultFor(work) :
             SendWorkFrame(work, junk, fault)
    \/ \E share \in ShareInputs, b \in ShareBufferLens :
          \E junk \in JunkFor(share), fault \in FaultFor(share) :
             EncodeShare(share, b, junk, fault)
    \/ CodecReturn

SpecCodec == Init /\ [][NextCodec]_vars

\* ------------------------------------------------------------------------
\* Registration and its reply (handle_registration_internal with the CLACK
\* it sends). One registrant more than there are slots, so that a
\* registration can meet a registry without a slot for it.
\* ------------------------------------------------------------------------

ESP_ERR_NO_MEM == "ESP_ERR_NO_MEM"

Registrants == 1 .. (CLUSTER_MAX_SLAVES + 1)

\* The text of a hostname.
HostnameText(h) ==
    CASE h = 1 -> "bitaxe-1"
      [] h = 2 -> "bitaxe-2"
      [] h = 3 -> "bitaxe-3"
      [] OTHER -> "bitaxe-n"

\* cluster_protocol_encode_ack(slave_id, status, ...) as its fields
EncodeAck(slave_id, status) ==
    [type |-> "CLACK", slave_id |-> slave_id, status |-> status]

\* Every slot is taken and none of them is the registrant's.
RegistryFullFor(hostname, mac) ==
    \A i \in Slots :
        /\ slaves[i].state # SLAVE_STATE_DISCONNECTED
        /\ ~(mac # NoMac /\ slaves[i].mac = mac)
        /\ slaves[i].hostname # hostname

\* handle_registration_internal up to the CLACK: without a slot it gives the
\* mutex back, logs and returns ESP_ERR_NO_MEM; with a slot it fills the slot
\* and sends a CLACK that carries the slot and, as its status, the hostname.
RegisterAndReply(hostname, mac) ==
    /\ tasks["rx"].pc = "idle"
    /\ slave_count < MaxSlaveCount
    /\ LET slot == FindSlot(hostname, mac)
       IN IF slot < 0
          THEN /\ UNCHANGED <<slaves, slave_count, tasks>>
               /\ reply' = [ret |-> ESP_ERR_NO_MEM, acks |-> <<>>,
                            full |-> RegistryFullFor(hostname, mac),
                            unchanged |-> TRUE]
          ELSE /\ slaves' = [slaves EXCEPT
                               ![slot].state = SLAVE_STATE_ACTIVE,
                               ![slot].hostname = hostname,
                               ![slot].mac = mac,
                               ![slot].last_heartbeat = now]
               /\ slave_count' = (slave_count + 1) % 256
               /\ tasks' = [tasks EXCEPT
                              !["rx"].pc = "calc",
                              !["rx"].reg =
                                  [slot |-> slot, hostname |-> hostname, mac |-> mac,
                                   old_state |-> slaves[slot].state,
                                   old_hostname |-> slaves[slot].hostname,
                                   old_mac |-> slaves[slot].mac]]
               /\ reply' = [ret |-> ESP_OK,
                            acks |-> <<EncodeAck(slot, HostnameText(hostname))>>,
                            full |-> RegistryFullFor(hostname, mac),
                            unchanged |-> FALSE]
    /\ recalcDone' = FALSE
    /\ UNCHANGED notAck
    /\ UNCHANGED <<work_valid, current_work, now, lastTx, jobsIssued>>

NextNoSlot ==
    \/ \E h \in Registrants, m \in Macs \cup {NoMac} : RegisterAndReply(h, m)
    \/ RegisterRecalc
    \/ CoordScan
    \/ CoordRecalc
    \/ Tick

SpecNoSlot == Init /\ [][NextNoSlot]_vars

\* ------------------------------------------------------------------------
\* Pacer (auto_timing.c). calibration_results[] is written and only ever
\* printed, and interval_changed is read outside this file; neither is part
\* of the model.
\* ------------------------------------------------------------------------

AUTO_TIMING_MIN_INTERVAL_MS == 500
AUTO_TIMING_MAX_INTERVAL_MS == 800
AUTO_TIMING_DEFAULT_INTERVAL_MS == 700
AUTO_TIMING_CALIBRATION_STEPS == 7
AUTO_TIMING_CALIBRATION_TIME_MS == 90000
AUTO_TIMING_MIN_SHARES_FOR_TEST == 20
AUTO_TIMING_WINDOW_MS == 300000
AUTO_TIMING_STABILIZE_MS == 120000
AUTO_TIMING_REJECT_HIGH == 5
AUTO_TIMING_REJECT_LOW == 1
AUTO_TIMING_STEP_UP_MS == 50
AUTO_TIMING_STEP_DOWN_MS == 25
LOCKED_RECALIBRATE_RATE == 10

CALIBRATION_INTERVALS == <<500, 550, 600, 650, 700, 750, 800>>

\* Values NVS may hold for the bounds and for the job interval.
NvsMins == {0, 750}
NvsMaxs == {0, 600}
NvsIntervals == {0, 550}

\* Intervals a user asks for.
ManualIntervals == {600, 900}

RateLt(a, b) == a[1] * b[2] < b[1] * a[2]

\* calculate_rejection_rate
calculate_rejection_rate(accepted, rejected) ==
    IF accepted + rejected = 0 THEN RateZero
    ELSE <<100 * rejected, accepted + rejected>>

\* set_interval: the interval clamped to the bounds, the lower one first.
ClampInterval(interval_ms) ==
    LET low == IF interval_ms < at.min_interval_ms THEN at.min_interval_ms
               ELSE interval_ms
    IN IF low > at.max_interval_ms THEN at.max_interval_ms ELSE low

set_interval(m, interval_ms) ==
    [m EXCEPT !.current_interval_ms = ClampInterval(interval_ms)]

reset_window_stats(m) ==
    [m EXCEPT !.window_shares_accepted = 0,
              !.window_shares_rejected = 0,
              !.window_start_time = pacer_now]

\* auto_timing_init with the values NVS holds.
auto_timing_init(enabled, nvs_min, nvs_max, nvs_interval) ==
    /\ pacer_pc = "boot"
    /\ LET min_interval_ms == IF nvs_min < 400 \/ nvs_min > 800
                              THEN AUTO_TIMING_MIN_INTERVAL_MS ELSE nvs_min
           max_interval_ms == IF nvs_max < 500 \/ nvs_max > 1000
                              THEN AUTO_TIMING_MAX_INTERVAL_MS ELSE nvs_max
           optimal == IF nvs_interval < min_interval_ms
                         \/ nvs_interval > max_interval_ms
                      THEN AUTO_TIMING_DEFAULT_INTERVAL_MS ELSE nvs_interval
       IN at' = [at EXCEPT !.enabled = enabled,
                           !.min_interval_ms = min_interval_ms,
                           !.max_interval_ms = max_interval_ms,
                           !.optimal_interval_ms = optimal,
                           !.current_interval_ms = optimal,
                           !.state = AUTO_TIMING_DISABLED,
                           !.best_rejection_rate = RateWorst,
                           !.best_interval = optimal]
    /\ nvs_job_interval' = nvs_interval
    /\ pacer_pc' = "init"
    /\ UNCHANGED <<pacer_now, sweep>>
    /\ UNCHANGED notPacer

\* auto_timing_task before its loop: a saved interval within the built-in
\* bounds is taken over as it is.
PacerTaskStart ==
    /\ pacer_pc = "init"
    /\ pacer_pc' = "loop"
    /\ at' = IF /\ nvs_job_interval >= AUTO_TIMING_MIN_INTERVAL_MS
                /\ nvs_job_interval <= AUTO_TIMING_MAX_INTERVAL_MS
                /\ at.enabled
             THEN [reset_window_stats(at) EXCEPT
                      !.current_interval_ms = nvs_job_interval,
                      !.optimal_interval_ms = nvs_job_interval,
                      !.state = AUTO_TIMING_MONITORING,
                      !.last_adjustment_time = pacer_now]
             ELSE at
    /\ UNCHANGED <<nvs_job_interval, pacer_now, sweep>>
    /\ UNCHANGED notPacer

\* start_calibration
start_calibration(m) ==
    [reset_window_stats(set_interval(m, CALIBRATION_INTERVALS[1])) EXCEPT
        !.state = AUTO_TIMING_CALIBRATING,
        !.calibration_step = 0,
        !.best_rejection_rate = RateWorst,
        !.best_interval = AUTO_TIMING_DEFAULT_INTERVAL_MS,
        !.calibration_start_time = pacer_now]

\* run_calibration_step once the step has lasted long enough: the module
\* after it, and the value written to NVS.
CalibrationStepDone ==
    LET step_accepted == at.window_shares_accepted
        step_rejected == at.window_shares_rejected
        rejection_rate == calculate_rejection_rate(step_accepted, step_rejected)
        better == /\ step_accepted + step_rejected >= AUTO_TIMING_MIN_SHARES_FOR_TEST
                  /\ \/ RateLt(rejection_rate, at.best_rejection_rate)
                     \/ RateLt(at.best_rejection_rate, RateZero)
        tracked == IF better
                   THEN [at EXCEPT !.best_rejection_rate = rejection_rate,
                                   !.best_interval =
                                       CALIBRATION_INTERVALS[at.calibration_step + 1]]
                   ELSE at
        next == at.calibration_step + 1
    IN IF next >= AUTO_TIMING_CALIBRATION_STEPS
       THEN [reset_window_stats(set_interval(tracked, tracked.best_interval)) EXCEPT
                !.calibration_step = next,
                !.optimal_interval_ms = tracked.best_interval,
                !.state = AUTO_TIMING_MONITORING,
                !.last_adjustment_time = pacer_now]
       ELSE [reset_window_stats(set_interval(tracked, CALIBRATION_INTERVALS[next + 1]))
             EXCEPT !.calibration_step = next,
                    !.calibration_start_time = pacer_now]

\* The sweep as the observer sees it: of the steps that collected enough
\* shares, the first one with the lowest rate and the interval that was in
\* effect during it; at the end of the sweep, the interval then applied.
SweepAfterStep(applied) ==
    LET total == at.window_shares_accepted + at.window_shares_rejected
        rate == calculate_rejection_rate(at.window_shares_accepted,
                                         at.window_shares_rejected)
        first == sweep.steps = 0
        base == IF first THEN NoSweep ELSE sweep
        counted == total >= AUTO_TIMING_MIN_SHARES_FOR_TEST
        lower == counted /\ (~base.any \/ RateLt(rate, base.rate))
    IN [steps |-> base.steps + 1,
        any |-> base.any \/ counted,
        rate |-> IF lower THEN rate ELSE base.rate,
        interval |-> IF lower THEN at.current_interval_ms ELSE base.interval,
        done |-> base.steps + 1 = AUTO_TIMING_CALIBRATION_STEPS,
        applied |-> IF base.steps + 1 = AUTO_TIMING_CALIBRATION_STEPS
                    THEN applied ELSE 0]

\* check_and_adjust once the window is long enough and holds enough shares
CheckAndAdjust ==
    LET rejection_rate == calculate_rejection_rate(at.window_shares_accepted,
                                                   at.window_shares_rejected)
        up == /\ rejection_rate[1] > AUTO_TIMING_REJECT_HIGH * rejection_rate[2]
              /\ at.current_interval_ms < at.max_interval_ms
        down == /\ ~up
                /\ rejection_rate[1] < AUTO_TIMING_REJECT_LOW * rejection_rate[2]
                /\ at.current_interval_ms > at.min_interval_ms
        raised == (at.current_interval_ms + AUTO_TIMING_STEP_UP_MS) % Limb
        lowered == (at.current_interval_ms + Limb - AUTO_TIMING_STEP_DOWN_MS) % Limb
        moved == IF up
                 THEN set_interval(at, IF raised > at.max_interval_ms
                                       THEN at.max_interval_ms ELSE raised)
                 ELSE IF down
                 THEN set_interval(at, IF lowered < at.min_interval_ms
                                       THEN at.min_interval_ms ELSE lowered)
                 ELSE at
        rated == [moved EXCEPT !.current_rejection_rate = rejection_rate]
        best == IF RateLt(rejection_rate, at.best_rejection_rate)
                THEN [rated EXCEPT !.best_rejection_rate = rejection_rate,
                                   !.best_interval = moved.current_interval_ms,
                                   !.optimal_interval_ms = moved.current_interval_ms]
                ELSE rated
    IN [m |-> [reset_window_stats(best) EXCEPT
                  !.last_adjustment_time = IF up \/ down THEN pacer_now ELSE @],
        nvs |-> IF RateLt(rejection_rate, at.best_rejection_rate)
                THEN moved.current_interval_ms ELSE nvs_job_interval]

\* One pass of the loop of auto_timing_task.
PacerTaskStep ==
    /\ pacer_pc = "loop"
    /\ IF ~at.enabled
       THEN /\ at' = [at EXCEPT !.state = AUTO_TIMING_DISABLED]
            /\ UNCHANGED <<nvs_job_interval, sweep>>
       ELSE IF at.state = AUTO_TIMING_DISABLED
       THEN /\ at' = start_calibration(at)
            /\ sweep' = NoSweep
            /\ UNCHANGED nvs_job_interval
       ELSE IF at.state = AUTO_TIMING_CALIBRATING
       THEN IF pacer_now - at.calibration_start_time >= AUTO_TIMING_CALIBRATION_TIME_MS
            THEN /\ at' = CalibrationStepDone
                 /\ sweep' = SweepAfterStep(at'.current_interval_ms)
                 /\ nvs_job_interval' =
                       IF at'.state = AUTO_TIMING_MONITORING
                       THEN at'.optimal_interval_ms ELSE nvs_job_interval
            ELSE UNCHANGED <<at, nvs_job_interval, sweep>>
       ELSE IF at.state = AUTO_TIMING_MONITORING
       THEN IF /\ pacer_now - at.last_adjustment_time >= AUTO_TIMING_STABILIZE_MS
               /\ pacer_now - at.window_start_time >= AUTO_TIMING_WINDOW_MS
               /\ at.window_shares_accepted + at.window_shares_rejected
                     >= AUTO_TIMING_MIN_SHARES_FOR_TEST
            THEN /\ at' = CheckAndAdjust.m
                 /\ nvs_job_interval' = CheckAndAdjust.nvs
                 /\ UNCHANGED sweep
            ELSE UNCHANGED <<at, nvs_job_interval, sweep>>
       ELSE IF at.current_rejection_rate[1]
                  > LOCKED_RECALIBRATE_RATE * at.current_rejection_rate[2]
       THEN /\ at' = start_calibration(at)
            /\ sweep' = NoSweep
            /\ UNCHANGED nvs_job_interval
       ELSE UNCHANGED <<at, nvs_job_interval, sweep>>
    /\ UNCHANGED <<pacer_pc, pacer_now>>
    /\ UNCHANGED notPacer

\* auto_timing_notify_share_accepted / auto_timing_notify_share_rejected,
\* ShareBurst times in a row while the task sleeps.
PacerShares(accepted) ==
    /\ pacer_pc # "boot"
    /\ at.window_shares_accepted + at.window_shares_rejected + ShareBurst
          <= MaxWindowShares
    /\ at' = IF accepted
             THEN [at EXCEPT !.window_shares_accepted = @ + ShareBurst]
             ELSE [at EXCEPT !.window_shares_rejected = @ + ShareBurst]
    /\ UNCHANGED <<nvs_job_interval, pacer_pc, pacer_now, sweep>>
    /\ UNCHANGED notPacer

\* auto_timing_set_interval
auto_timing_set_interval(interval_ms) ==
    /\ pacer_pc # "boot"
    /\ interval_ms >= at.min_interval_ms
    /\ interval_ms <= at.max_interval_ms
    /\ at' = [set_interval(at, interval_ms) EXCEPT
                 !.state = AUTO_TIMING_LOCKED,
                 !.optimal_interval_ms = interval_ms]
    /\ nvs_job_interval' = interval_ms
    /\ UNCHANGED <<pacer_pc, pacer_now, sweep>>
    /\ UNCHANGED notPacer

\* auto_timing_set_enabled
auto_timing_set_enabled(enabled) ==
    /\ pacer_pc # "boot"
    /\ at.enabled # enabled
    /\ at' = [at EXCEPT !.enabled = enabled,
                        !.state = IF enabled THEN @ ELSE AUTO_TIMING_DISABLED]
    /\ UNCHANGED <<nvs_job_interval, pacer_pc, pacer_now, sweep>>
    /\ UNCHANGED notPacer

\* auto_timing_start_calibration
auto_timing_start_calibration ==
    /\ pacer_pc # "boot"
    /\ at.enabled
    /\ at' = start_calibration(at)
    /\ sweep' = NoSweep
    /\ UNCHANGED <<nvs_job_interval, pacer_pc, pacer_now>>
    /\ UNCHANGED notPacer

PacerTick ==
    /\ pacer_pc = "loop"
    /\ pacer_now + PacerTickMs <= MaxPacerTicks * PacerTickMs
    /\ pacer_now' = pacer_now + PacerTickMs
    /\ UNCHANGED <<at, nvs_job_interval, pacer_pc, sweep>>
    /\ UNCHANGED notPacer

NextPacer ==
    \/ \E e \in BOOLEAN, lo \in NvsMins, hi \in NvsMaxs, i \in NvsIntervals :
          auto_timing_init(e, lo, hi, i)
    \/ PacerTaskStart
    \/ PacerTaskStep
    \/ \E a \in BOOLEAN : PacerShares(a)
    \/ \E i \in ManualIntervals : auto_timing_set_interval(i)
    \/ \E e \in BOOLEAN : auto_timing_set_enabled(e)
    \/ auto_timing_start_calibration
    \/ PacerTick

SpecPacer == Init /\ [][NextPacer]_vars

\* ------------------------------------------------------------------------
\* Tuner (cluster_autotune.c): the sweep of cluster_autotune_task on the
\* master itself, cluster_autotune_stop and the safety watchdog. Hashrate is
\* in GH/s, power in W, temperature in degrees C, voltages in mV.
\* ------------------------------------------------------------------------

TEMP_TARGET_C == 65
VIN_MIN_SAFE_MV == 4900
VOLTAGE_SAFE_MV == 1100
FREQ_BASE_MHZ == 450
VOLTAGE_BASE_MV == 1100

FREQ_STEPS == <<450, 500, 525, 550, 600, 625, 650, 700, 725, 750, 800>>
VOLTAGE_STEPS == <<1100, 1150, 1200, 1225, 1250, 1275, 1300>>

FREQ_MAX_MHZ_EFFICIENCY == 625
FREQ_MAX_MHZ_BALANCED == 700
FREQ_MAX_MHZ_HASHRATE == 800
VOLTAGE_MAX_MV_EFFICIENCY == 1175
VOLTAGE_MAX_MV_BALANCED == 1200
VOLTAGE_MAX_MV_HASHRATE == 1300

\* The modes a sweep is started in, and what a cell answers with: hashrate
\* and power, and the temperature.
TunedModes == {AUTOTUNE_MODE_EFFICIENCY}
Responses == {<<0, 10>>, <<500, 10>>, <<1000, 30>>}
Temps == {60, 70}

\* What the watchdog reads.
CoreVoltageReadings == {1000, 1100, 1140, 1150, 1300}
WatchTemps == {65, 70}
WatchVins == {4800, 4900}

get_max_freq_for_mode(mode) ==
    CASE mode = AUTOTUNE_MODE_EFFICIENCY -> FREQ_MAX_MHZ_EFFICIENCY
      [] mode = AUTOTUNE_MODE_BALANCED -> FREQ_MAX_MHZ_BALANCED
      [] mode = AUTOTUNE_MODE_HASHRATE -> FREQ_MAX_MHZ_HASHRATE
      [] OTHER -> FREQ_MAX_MHZ_EFFICIENCY

get_max_voltage_for_mode(mode) ==
    CASE mode = AUTOTUNE_MODE_EFFICIENCY -> VOLTAGE_MAX_MV_EFFICIENCY
      [] mode = AUTOTUNE_MODE_BALANCED -> VOLTAGE_MAX_MV_BALANCED
      [] mode = AUTOTUNE_MODE_HASHRATE -> VOLTAGE_MAX_MV_HASHRATE
      [] OTHER -> VOLTAGE_MAX_MV_EFFICIENCY

get_freq_step_count(mode) ==
    Cardinality({i \in DOMAIN FREQ_STEPS : FREQ_STEPS[i] <= get_max_freq_for_mode(mode)})

get_voltage_step_count(mode) ==
    Cardinality({i \in DOMAIN VOLTAGE_STEPS :
                    VOLTAGE_STEPS[i] <= get_max_voltage_for_mode(mode)})

\* The steps the two loops of the sweep do not skip, in their order.
TestedFreqs(mode) ==
    LET Fits(f) == f <= get_max_freq_for_mode(mode)
    IN SelectSeq(FREQ_STEPS, Fits)

TestedVoltages(mode) ==
    LET Fits(v) == v <= get_max_voltage_for_mode(mode)
    IN SelectSeq(VOLTAGE_STEPS, Fits)

\* The k-th cell of the sweep: the voltage loop is the inner one.
CellAt(mode, k) ==
    LET nv == Len(TestedVoltages(mode))
    IN [frequency |-> TestedFreqs(mode)[((k - 1) \div nv) + 1],
        voltage |-> TestedVoltages(mode)[((k - 1) % nv) + 1]]

CellCount(mode) == Len(TestedFreqs(mode)) * Len(TestedVoltages(mode))

EffLt(a, b) == a[1] * b[2] < b[1] * a[2]

calculate_efficiency(hashrate_gh, power_w) ==
    IF hashrate_gh <= 0 \/ power_w <= 0 THEN INVALID_EFFICIENCY
    ELSE <<power_w * 1000, hashrate_gh>>

\* The hashrate mode's test, for every mode.
IsBetterByHashrate(mode, efficiency, avg_hashrate, avg_temp, t) ==
    avg_hashrate > t.best_hashrate /\ avg_temp <= TEMP_TARGET_C

\* is_better of the sweep, t being the task's best_* values.
IsBetter(mode, efficiency, avg_hashrate, avg_temp, t) ==
    IF mode = AUTOTUNE_MODE_EFFICIENCY
    THEN /\ EffLt(efficiency, t.best_efficiency)
         /\ avg_hashrate > 0
         /\ avg_temp <= TEMP_TARGET_C
    ELSE IF mode = AUTOTUNE_MODE_HASHRATE
    THEN avg_hashrate > t.best_hashrate /\ avg_temp <= TEMP_TARGET_C
    ELSE LET valid == EffLt(t.best_efficiency, INVALID_EFFICIENCY)
         IN /\ IF valid
               THEN avg_hashrate * efficiency[2] * t.best_efficiency[1]
                       > t.best_hashrate * t.best_efficiency[2] * efficiency[1]
               ELSE avg_hashrate * efficiency[2] > 0
            /\ avg_temp <= TEMP_TARGET_C

\* cluster_autotune_apply_settings up to its lock(): the voltage is capped
\* when the input voltage is low.
AppliedSettings(frequency_mhz, voltage_mv, vin_low) ==
    [frequency |-> frequency_mhz,
     voltage |-> IF vin_low THEN VOLTAGE_SAFE_MV ELSE voltage_mv]

\* cluster_autotune_start
cluster_autotune_start(mode) ==
    /\ tune.pc = "none"
    /\ stopper.pc = "idle"
    /\ mutex = "none"
    /\ ~g_autotune.task_running
    /\ g_autotune' = [g_autotune EXCEPT
                         !.state = AUTOTUNE_STATE_STARTING,
                         !.mode = mode,
                         !.tests_completed = 0,
                         !.tests_total = get_freq_step_count(mode)
                                            * get_voltage_step_count(mode),
                         !.current_frequency = hw.frequency,
                         !.current_voltage = hw.voltage,
                         !.task_handle = TRUE,
                         !.task_running = TRUE]
    /\ tune' = [IdleTune EXCEPT !.pc = "begin"]
    /\ grid' = NoGrid
    /\ UNCHANGED <<mutex, hw, stopper, wd>>
    /\ UNCHANGED notTuner

\* cluster_autotune_task from its start to the lock() inside the
\* cluster_autotune_apply_settings call for the base settings.
TaskBegin ==
    /\ tune.pc = "begin"
    /\ mutex = "none"
    /\ g_autotune' = [g_autotune EXCEPT !.state = AUTOTUNE_STATE_STABILIZING]
    /\ hw' = AppliedSettings(FREQ_BASE_MHZ, VOLTAGE_BASE_MV, FALSE)
    /\ tune' = [pc |-> "apply_lock", cell |-> 0,
                best_efficiency |-> INVALID_EFFICIENCY,
                best_freq |-> FREQ_BASE_MHZ, best_voltage |-> VOLTAGE_BASE_MV,
                best_hashrate |-> 0]
    /\ UNCHANGED <<mutex, stopper, grid, wd>>
    /\ UNCHANGED notTuner

\* The end of cluster_autotune_apply_settings: lock(), the status fields,
\* unlock(). xSemaphoreTake with portMAX_DELAY waits until the mutex is
\* free, whoever holds it.
ApplySettingsLock(who) ==
    /\ mutex = "none"
    /\ g_autotune' = [g_autotune EXCEPT !.current_frequency = hw.frequency,
                                        !.current_voltage = hw.voltage]
    /\ IF who = "task"
       THEN /\ tune.pc = "apply_lock"
            /\ tune' = [tune EXCEPT !.pc = "stabilize"]
            /\ UNCHANGED stopper
       ELSE /\ stopper.pc = "apply_lock"
            /\ stopper' = [stopper EXCEPT !.pc = "finish"]
            /\ UNCHANGED tune
    /\ UNCHANGED <<mutex, hw, grid, wd>>
    /\ UNCHANGED notTuner

\* The initial stabilisation: a task stopped meanwhile deletes itself.
TaskStabilized ==
    /\ tune.pc = "stabilize"
    /\ tune' = IF g_autotune.task_running
               THEN [tune EXCEPT !.pc = "sweep", !.cell = 1]
               ELSE [tune EXCEPT !.pc = "none"]
    /\ UNCHANGED <<g_autotune, mutex, hw, stopper, grid, wd>>
    /\ UNCHANGED notTuner

\* The responses of the sweep so far: of the cells under the temperature
\* cap that hash at all, the lowest J/TH, the first cell that has it, and
\* whether it is the only one.
GridAfterCell(cell, hashrate, power, temp, vin_low) ==
    LET efficiency == calculate_efficiency(hashrate, power)
        counted == temp <= TEMP_TARGET_C /\ hashrate > 0
        lower == counted /\ (~grid.any \/ EffLt(efficiency, grid.efficiency))
        equal == /\ counted
                 /\ grid.any
                 /\ ~EffLt(efficiency, grid.efficiency)
                 /\ ~EffLt(grid.efficiency, efficiency)
    IN [tested |-> grid.tested + 1,
        any |-> grid.any \/ counted,
        unique |-> IF lower THEN TRUE ELSE IF equal THEN FALSE ELSE grid.unique,
        efficiency |-> IF lower THEN efficiency ELSE grid.efficiency,
        frequency |-> IF lower THEN cell.frequency ELSE grid.frequency,
        voltage |-> IF lower THEN cell.voltage ELSE grid.voltage,
        vin_skipped |-> grid.vin_skipped \/ vin_low,
        complete |-> FALSE]

\* One pass of the inner loop of the sweep: the cell answers with hashrate,
\* power and temp; vin_low is a reading of the input voltage below 4.9 V.
TaskTestCell(hashrate, power, temp, vin_low) ==
    /\ tune.pc = "sweep"
    /\ g_autotune.task_running
    /\ tune.cell <= CellCount(g_autotune.mode)
    /\ mutex = "none"
    /\ LET cell == CellAt(g_autotune.mode, tune.cell)
           efficiency == calculate_efficiency(hashrate, power)
           better == IsBetter(g_autotune.mode, efficiency, hashrate, temp, tune)
           counted == [g_autotune EXCEPT !.tests_completed = @ + 1]
       IN /\ grid' = GridAfterCell(cell, hashrate, power, temp, vin_low)
          /\ IF vin_low
             THEN /\ hw' = [hw EXCEPT !.voltage = VOLTAGE_SAFE_MV]
                  /\ g_autotune' = [counted EXCEPT !.current_voltage = VOLTAGE_SAFE_MV]
                  /\ tune' = [tune EXCEPT !.cell = @ + 1]
             ELSE IF temp > TEMP_TARGET_C
             THEN /\ hw' = AppliedSettings(cell.frequency, cell.voltage, FALSE)
                  /\ g_autotune' = [counted EXCEPT
                                       !.state = AUTOTUNE_STATE_STABILIZING,
                                       !.current_frequency = cell.frequency,
                                       !.current_voltage = cell.voltage]
                  /\ tune' = [tune EXCEPT !.cell = @ + 1]
             ELSE /\ hw' = AppliedSettings(cell.frequency, cell.voltage, FALSE)
                  /\ g_autotune' = [counted EXCEPT
                                       !.state = AUTOTUNE_STATE_TESTING,
                                       !.current_frequency = cell.frequency,
                                       !.current_voltage = cell.voltage,
                                       !.best_frequency =
                                           IF better THEN cell.frequency ELSE @,
                                       !.best_voltage =
                                           IF better THEN cell.voltage ELSE @]
                  /\ tune' = IF better
                             THEN [tune EXCEPT !.cell = @ + 1,
                                               !.best_efficiency = efficiency,
                                               !.best_freq = cell.frequency,
                                               !.best_voltage = cell.voltage,
                                               !.best_hashrate = hashrate]
                             ELSE [tune EXCEPT !.cell = @ + 1]
    /\ UNCHANGED <<mutex, stopper, wd>>
    /\ UNCHANGED notTuner

\* After the loops: a task that still runs applies its best settings and
\* locks the result; a stopped one goes to Idle. (No worker has an IP
\* address, so the sweeps of the workers are empty.)
TaskSweepEnd(vin_low) ==
    /\ tune.pc = "sweep"
    /\ mutex = "none"
    /\ tune.cell > CellCount(g_autotune.mode) \/ ~g_autotune.task_running
    /\ hw' = IF g_autotune.task_running
             THEN AppliedSettings(tune.best_freq, tune.best_voltage, vin_low)
             ELSE hw
    /\ g_autotune' = [g_autotune EXCEPT
                         !.current_frequency = hw'.frequency,
                         !.current_voltage = hw'.voltage,
                         !.state = IF g_autotune.task_running
                                   THEN AUTOTUNE_STATE_LOCKED
                                   ELSE AUTOTUNE_STATE_IDLE,
                         !.task_running = FALSE,
                         !.task_handle = FALSE]
    /\ grid' = [grid EXCEPT !.complete = g_autotune.task_running]
    /\ tune' = [tune EXCEPT !.pc = "none"]
    /\ UNCHANGED <<mutex, stopper, wd>>
    /\ UNCHANGED notTuner

\* cluster_autotune_stop up to its vTaskDelay: lock(), the early return
\* when no task runs, task_running = false, and unlock() when there is a
\* task to wait for.
cluster_autotune_stop(apply_best) ==
    /\ stopper.pc = "idle"
    /\ mutex = "none"
    /\ IF ~g_autotune.task_running
       THEN UNCHANGED <<g_autotune, mutex, stopper>>
       ELSE /\ g_autotune' = [g_autotune EXCEPT !.task_running = FALSE]
            /\ mutex' = IF g_autotune.task_handle THEN "none" ELSE "stop"
            /\ stopper' = [pc |-> IF g_autotune.task_handle THEN "delay" ELSE "locked",
                           apply_best |-> apply_best,
                           claimed |-> /\ apply_best
                                       /\ tune.pc = "sweep"
                                       /\ g_autotune.best_frequency > 0
                                       /\ g_autotune.best_voltage > 0]
    /\ UNCHANGED <<hw, tune, grid, wd>>
    /\ UNCHANGED notTuner

\* lock() after the vTaskDelay
StopRelock ==
    /\ stopper.pc = "delay"
    /\ mutex = "none"
    /\ mutex' = "stop"
    /\ stopper' = [stopper EXCEPT !.pc = "locked"]
    /\ UNCHANGED <<g_autotune, hw, tune, grid, wd>>
    /\ UNCHANGED notTuner

\* With the mutex held: cluster_autotune_apply_settings for the best
\* settings, up to its lock().
StopApply(vin_low) ==
    /\ stopper.pc = "locked"
    /\ IF /\ stopper.apply_best
          /\ g_autotune.best_frequency > 0
          /\ g_autotune.best_voltage > 0
       THEN /\ hw' = AppliedSettings(g_autotune.best_frequency,
                                     g_autotune.best_voltage, vin_low)
            /\ stopper' = [stopper EXCEPT !.pc = "apply_lock"]
       ELSE /\ stopper' = [stopper EXCEPT !.pc = "finish"]
            /\ UNCHANGED hw
    /\ UNCHANGED <<g_autotune, mutex, tune, grid, wd>>
    /\ UNCHANGED notTuner

\* state = AUTOTUNE_STATE_IDLE, unlock(), return
StopFinish ==
    /\ stopper.pc = "finish"
    /\ g_autotune' = [g_autotune EXCEPT !.state = AUTOTUNE_STATE_IDLE]
    /\ mutex' = "none"
    /\ stopper' = IdleStopper
    /\ UNCHANGED <<hw, tune, grid, wd>>
    /\ UNCHANGED notTuner

StopSteps ==
    \/ StopRelock
    \/ \E vin_low \in BOOLEAN : StopApply(vin_low)
    \/ ApplySettingsLock("stop")
    \/ StopFinish

TaskSteps ==
    \/ TaskBegin
    \/ ApplySettingsLock("task")
    \/ TaskStabilized
    \/ \E r \in Responses, t \in Temps, vin_low \in BOOLEAN :
          TaskTestCell(r[1], r[2], t, vin_low)
    \/ \E vin_low \in BOOLEAN : TaskSweepEnd(vin_low)

NextTuner ==
    \/ \E mode \in TunedModes : cluster_autotune_start(mode)
    \/ TaskBegin
    \/ ApplySettingsLock("task")
    \/ TaskStabilized
    \/ \E r \in Responses, t \in Temps, vin_low \in BOOLEAN :
          TaskTestCell(r[1], r[2], t, vin_low)
    \/ \E vin_low \in BOOLEAN : TaskSweepEnd(vin_low)

SpecTuner == Init /\ [][NextTuner]_vars

\* What a cell answers with while a stop is under way.
StopResponses == {<<0, 10>>, <<500, 10>>}

NextStop ==
    \/ \E mode \in TunedModes : cluster_autotune_start(mode)
    \/ TaskBegin
    \/ \E who \in {"task", "stop"} : ApplySettingsLock(who)
    \/ TaskStabilized
    \/ \E r \in StopResponses : TaskTestCell(r[1], r[2], 60, FALSE)
    \/ TaskSweepEnd(FALSE)
    \/ \E apply_best \in BOOLEAN : cluster_autotune_stop(apply_best)
    \/ StopRelock
    \/ \E vin_low \in BOOLEAN : StopApply(vin_low)
    \/ StopFinish

SpecStop == Init /\ [][NextStop]_vars

\* cluster_autotune_stop runs in the task of its caller and
\* cluster_autotune_task in its own; the scheduler lets each of them go on
\* whenever it is not waiting for the mutex.
SpecStopFair ==
    Init /\ [][NextStop]_vars /\ WF_vars(StopSteps) /\ WF_vars(TaskSteps)

\* C18: in Efficiency mode, when the sweep has run over the whole grid with
\* no test skipped for a low input voltage, and among the cells under the
\* temperature cap that hash exactly one has the lowest J/TH, then
\* best_frequency and best_voltage are that cell.
C18_BestIsLowestJoulePerTerahash ==
    ( /\ grid.complete
      /\ g_autotune.mode = AUTOTUNE_MODE_EFFICIENCY
      /\ grid.tested = CellCount(AUTOTUNE_MODE_EFFICIENCY)
      /\ ~grid.vin_skipped
      /\ grid.any
      /\ grid.unique )
    => /\ g_autotune.best_frequency = grid.frequency
       /\ g_autotune.best_voltage = grid.voltage

\* A whole sweep whose only lowest cell is neither the first cell nor one
\* of the highest hashrate.
C18_Witness ==
    /\ grid.complete
    /\ grid.tested = CellCount(AUTOTUNE_MODE_EFFICIENCY)
    /\ ~grid.vin_skipped
    /\ grid.any
    /\ grid.unique
    /\ grid.efficiency = <<10000, 500>>
    /\ grid.frequency = 550
    /\ grid.voltage = 1150
    /\ g_autotune.best_frequency = 550
    /\ g_autotune.best_voltage = 1150
    /\ g_autotune.state = AUTOTUNE_STATE_LOCKED


\* get_lower_freq_step / get_lower_voltage_step: the highest step below the
\* value, the lowest step when there is none.
LowerStep(steps, value) ==
    LET below == {i \in DOMAIN steps : steps[i] < value}
    IN IF below = {} THEN steps[1]
       ELSE steps[CHOOSE i \in below : \A j \in below : j <= i]

get_lower_freq_step(current_freq) == LowerStep(FREQ_STEPS, current_freq)

get_lower_voltage_step(current_voltage) == LowerStep(VOLTAGE_STEPS, current_voltage)

\* cluster_autotune_watchdog_enable
cluster_autotune_watchdog_enable(enable) ==
    /\ g_autotune.watchdog_enabled # enable
    /\ g_autotune' =
          IF enable /\ ~g_autotune.watchdog_running
          THEN [g_autotune EXCEPT !.watchdog_enabled = TRUE,
                                  !.watchdog_running = TRUE,
                                  !.watchdog_last_freq = 0,
                                  !.watchdog_last_voltage = 0]
          ELSE IF ~enable /\ g_autotune.watchdog_running
          THEN [g_autotune EXCEPT !.watchdog_enabled = FALSE,
                                  !.watchdog_running = FALSE]
          ELSE [g_autotune EXCEPT !.watchdog_enabled = enable]
    /\ UNCHANGED <<mutex, hw, tune, stopper, grid, wd>>
    /\ UNCHANGED notTuner

\* One pass of the loop of cluster_watchdog_task on the master's own chip:
\* the frequency is the one last set, the core voltage is measured.
WatchdogTick(current_voltage, current_temp, current_vin) ==
    /\ g_autotune.watchdog_running
    /\ g_autotune.watchdog_enabled
    /\ LET current_freq == hw.frequency
           hot == current_temp > TEMP_TARGET_C
           low == current_vin < VIN_MIN_SAFE_MV
           new_freq == IF low THEN get_lower_freq_step(current_freq)
                       ELSE current_freq
           new_voltage == IF hot \/ low THEN get_lower_voltage_step(current_voltage)
                          ELSE current_voltage
           act == /\ hot \/ low
                  /\ new_freq # current_freq \/ new_voltage # current_voltage
       IN /\ hw' = IF act THEN [frequency |-> new_freq, voltage |-> new_voltage]
                   ELSE hw
          /\ g_autotune' = IF act
                           THEN [g_autotune EXCEPT
                                    !.watchdog_last_freq = new_freq,
                                    !.watchdog_last_voltage = new_voltage]
                           ELSE g_autotune
          /\ wd' = [seen |-> TRUE, current_freq |-> current_freq,
                    current_voltage |-> current_voltage, temp |-> current_temp,
                    vin |-> current_vin, before |-> hw]
    /\ UNCHANGED <<mutex, tune, stopper, grid>>
    /\ UNCHANGED notTuner

NextWatchdog ==
    \/ \E enable \in BOOLEAN : cluster_autotune_watchdog_enable(enable)
    \/ \E v \in CoreVoltageReadings, t \in WatchTemps, vin \in WatchVins :
          WatchdogTick(v, t, vin)

SpecWatchdog == Init /\ [][NextWatchdog]_vars

\* to is the step next below from: a step under from with no step between.
IsNextLowerStep(steps, from, to) ==
    /\ \E i \in DOMAIN steps : steps[i] = to
    /\ to < from
    /\ \A i \in DOMAIN steps : ~(to < steps[i] /\ steps[i] < from)

\* C19: after a watchdog tick that read a chip temperature above 65 C the
\* core voltage set is the step next below the core voltage read; after a
\* tick that read an input voltage below 4.9 V the frequency and the core
\* voltage set are the steps next below the ones read.
C19_TickLowersToNextStep ==
    wd.seen =>
        /\ wd.temp > TEMP_TARGET_C =>
               IsNextLowerStep(VOLTAGE_STEPS, wd.current_voltage, hw.voltage)
        /\ wd.vin < VIN_MIN_SAFE_MV =>
               /\ IsNextLowerStep(FREQ_STEPS, wd.current_freq, hw.frequency)
               /\ IsNextLowerStep(VOLTAGE_STEPS, wd.current_voltage, hw.voltage)

\* C20: a cluster_autotune_stop(true) called while a sweep runs and a best
\* cell is recorded returns in the end, with the Tuner state Idle.
C20_StopWithApplyReturns ==
    (stopper.claimed /\ stopper.pc # "idle")
        ~> (stopper.pc = "idle" /\ g_autotune.state = AUTOTUNE_STATE_IDLE)

\* ------------------------------------------------------------------------
\* Cluster mode (cluster.c): cluster_init, cluster_deinit, cluster_set_mode.
\* ------------------------------------------------------------------------

CLUSTER_MODE_DISABLED == 0
CLUSTER_MODE_MASTER == 1
CLUSTER_MODE_SLAVE == 2

ESP_ERR_INVALID_STATE == "ESP_ERR_INVALID_STATE"
ESP_ERR_NOT_SUPPORTED == "ESP_ERR_NOT_SUPPORTED"

ClusterModes == {CLUSTER_MODE_DISABLED, CLUSTER_MODE_MASTER, CLUSTER_MODE_SLAVE}
Firmwares == {"master", "slave"}

\* What nvs_get_u8 finds under the key: a byte, or nothing (NoStored).
NoStored == 0 - 1
StoredModes == {NoStored, 0, 1, 2, 7}

\* What cluster_master_init / cluster_slave_init return.
InitResults == {ESP_OK, ESP_ERR_NO_MEM}

CLUSTER_MODE_DEFAULT(build) ==
    IF build = "master" THEN CLUSTER_MODE_MASTER ELSE CLUSTER_MODE_SLAVE

load_mode_from_nvs(build, stored) ==
    IF stored # NoStored /\ stored <= CLUSTER_MODE_SLAVE THEN stored
    ELSE CLUSTER_MODE_DEFAULT(build)

\* cluster_init(mode) called with g_cluster_state.mode = was: the mode, the
\* stored byte and the return value it leaves. init_ret is what the init of
\* the role returns, nvs_ok whether save_mode_to_nvs can write.
cluster_init(was, stored, build, mode, init_ret, nvs_ok) ==
    LET asked == IF mode = CLUSTER_MODE_DISABLED
                 THEN load_mode_from_nvs(build, stored) ELSE mode
        same == [mode |-> was, stored |-> stored]
    IN IF was # CLUSTER_MODE_DISABLED
       THEN same @@ [ret |-> ESP_ERR_INVALID_STATE]
       ELSE IF asked = CLUSTER_MODE_DISABLED
       THEN same @@ [ret |-> ESP_OK]
       ELSE IF asked # CLUSTER_MODE_DEFAULT(build)
       THEN same @@ [ret |-> ESP_ERR_NOT_SUPPORTED]
       ELSE IF init_ret # ESP_OK
       THEN same @@ [ret |-> init_ret]
       ELSE [mode |-> asked, stored |-> IF nvs_ok THEN asked ELSE stored,
             ret |-> ESP_OK]

\* cluster_integration_init: the device starts with its build and whatever
\* the NVS holds and calls cluster_init(CLUSTER_MODE_DEFAULT).
ClusterBoot(build, stored, init_ret, nvs_ok) ==
    /\ firmware = "none"
    /\ LET r == cluster_init(CLUSTER_MODE_DISABLED, stored, build,
                             CLUSTER_MODE_DEFAULT(build), init_ret, nvs_ok)
       IN /\ g_cluster_mode' = r.mode
          /\ nvs_mode' = r.stored
    /\ firmware' = build
    /\ UNCHANGED mode_call
    /\ UNCHANGED notMode

\* cluster_set_mode
cluster_set_mode(mode, init_ret, nvs_ok) ==
    /\ firmware # "none"
    /\ IF mode = g_cluster_mode
       THEN /\ mode_call' = [mode |-> mode, was |-> g_cluster_mode, ret |-> ESP_OK]
            /\ UNCHANGED <<g_cluster_mode, nvs_mode>>
       ELSE LET r == cluster_init(CLUSTER_MODE_DISABLED, nvs_mode, firmware, mode,
                                  init_ret, nvs_ok)
            IN /\ g_cluster_mode' = r.mode
               /\ nvs_mode' = r.stored
               /\ mode_call' = [mode |-> mode, was |-> g_cluster_mode, ret |-> r.ret]
    /\ UNCHANGED firmware
    /\ UNCHANGED notMode

\* The NVS key is erased or rewritten from outside the cluster code.
NvsModeWritten(stored) ==
    /\ firmware # "none"
    /\ nvs_mode' = stored
    /\ UNCHANGED <<g_cluster_mode, firmware, mode_call>>
    /\ UNCHANGED notMode

NextMode ==
    \/ \E build \in Firmwares, stored \in StoredModes, init_ret \in InitResults,
          nvs_ok \in BOOLEAN : ClusterBoot(build, stored, init_ret, nvs_ok)
    \/ \E mode \in ClusterModes, init_ret \in InitResults, nvs_ok \in BOOLEAN :
          cluster_set_mode(mode, init_ret, nvs_ok)
    \/ \E stored \in StoredModes : NvsModeWritten(stored)

SpecMode == Init /\ [][NextMode]_vars

cluster_get_mode == g_cluster_mode

cluster_is_active == g_cluster_mode # CLUSTER_MODE_DISABLED

\* C21: after a cluster_set_mode(m) that returned ESP_OK the cluster is in
\* mode m; after such a call with m = Disabled on a running Coordinator or
\* Worker cluster_get_mode() is Disabled and cluster_is_active() is false.
C21_SetModeLeavesMode ==
    mode_call.ret = ESP_OK =>
        /\ cluster_get_mode = mode_call.mode
        /\ (mode_call.mode = CLUSTER_MODE_DISABLED
                /\ mode_call.was # CLUSTER_MODE_DISABLED) => ~cluster_is_active

\* ------------------------------------------------------------------------
\* The Worker (cluster_slave.c, cluster_integration.c)
\* ------------------------------------------------------------------------

\* CLWRK frames a Worker receives and nonces the ASIC reports.
MaxWorkFrames == 4
MaxFinds == 2

\* my_id before a CLACK assigns one (cluster_slave.c:655).
SLAVE_ID_UNASSIGNED == 255

\* The ids a CLACK assigns, the targets, job ids and extranonce2 values of
\* the frames on the air and the nonces the ASIC reports. An extranonce2 is
\* the eight bytes of cluster_work_t.extranonce2 with its length; the
\* decoder leaves the bytes past the length zero.
AssignedIds == {0}
WorkTargets == {0, 1}
WorkJobIds == {0, 1}
WorkExtranonce2s ==
    { <<(<<0, 0, 0, 0, 0, 0, 0, 0>>), 0>>,
      <<(<<1, 0, 0, 1, 0, 0, 0, 0>>), 4>>,
      <<(<<1, 0, 0, 2, 0, 0, 0, 0>>), 4>> }
FoundNonces == {7}

WorkFrames ==
    { [target_slave_id |-> t, job_id |-> j, extranonce2 |-> e[1],
       extranonce2_len |-> e[2]] :
        t \in WorkTargets, j \in WorkJobIds, e \in WorkExtranonce2s }

\* The extranonce2 a work, a job or a share carries: its first len bytes.
Extranonce2Of(w) == SubSeq(w.extranonce2, 1, w.extranonce2_len)

\* What identifies a work for worker_task: its job id and its extranonce2.
WorkKey(w) == <<w.job_id, Extranonce2Of(w)>>

\* cluster_slave_handle_ack: the CLACK's id becomes my_id.
cluster_slave_handle_ack(assigned_id) ==
    /\ g_slave' = [g_slave EXCEPT !.my_id = assigned_id,
                                  !.registered = TRUE]
    /\ UNCHANGED <<worker_notify, wtask, asic_jobs, found_share,
                   slave_recent_shares, frames_rx>>
    /\ UNCHANGED notWorker

\* cluster_slave_receive_work: a frame received before registration or
\* addressed to another Worker is dropped; any other is stored as
\* current_work and worker_task is notified.
cluster_slave_receive_work(work) ==
    /\ frames_rx.work < MaxWorkFrames
    /\ frames_rx' = [frames_rx EXCEPT !.work = @ + 1]
    /\ IF ~g_slave.registered \/ g_slave.my_id = SLAVE_ID_UNASSIGNED
       THEN UNCHANGED <<g_slave, worker_notify>>
       ELSE IF work.target_slave_id # g_slave.my_id
       THEN UNCHANGED <<g_slave, worker_notify>>
       ELSE /\ g_slave' = [g_slave EXCEPT !.current_work = work,
                                          !.work_valid = TRUE]
            /\ worker_notify' = TRUE
    /\ UNCHANGED <<wtask, asic_jobs, found_share, slave_recent_shares>>
    /\ UNCHANGED notWorker

\* worker_task, from ulTaskNotifyTake to cluster_slave_get_work: the take
\* returns on a notification or after its 1000 ms and clears what was
\* pending; without valid work the loop starts over.
WorkerTake ==
    /\ wtask.pc = "wait"
    /\ worker_notify' = FALSE
    /\ wtask' = IF g_slave.work_valid
                THEN [wtask EXCEPT !.pc = "got", !.work = g_slave.current_work]
                ELSE wtask
    /\ UNCHANGED <<g_slave, asic_jobs, found_share, slave_recent_shares,
                   frames_rx>>
    /\ UNCHANGED notWorker

\* memcmp(work.extranonce2, last_extranonce2, work.extranonce2_len) != 0
Extranonce2Differs(work, last) ==
    \E i \in 1..work.extranonce2_len : work.extranonce2[i] # last[i]

\* memcpy(last_extranonce2, work.extranonce2, work.extranonce2_len)
CopyExtranonce2(work, last) ==
    [i \in 1..8 |-> IF i <= work.extranonce2_len THEN work.extranonce2[i]
                    ELSE last[i]]

\* The bm_job cluster_slave_submit_to_asic enqueues for a work: its jobid is
\* the work's job_id printed as eight hex digits (which
\* cluster_slave_intercept_share reads back with strtoul), its extranonce2
\* the hex digits of the work's extranonce2.
AsicJobOf(work) ==
    [job_id |-> work.job_id, extranonce2 |-> work.extranonce2,
     extranonce2_len |-> work.extranonce2_len]

\* worker_task, the rest of the loop body: a work whose job id or
\* extranonce2 differs from the last one submitted is remembered and
\* submitted to the ASIC.
WorkerSubmit ==
    /\ wtask.pc = "got"
    /\ LET work == wtask.work
           job_changed == work.job_id # wtask.last_job_id
           en2_changed ==
               \/ work.extranonce2_len # wtask.last_en2_len
               \/ Extranonce2Differs(work, wtask.last_extranonce2)
       IN  IF job_changed \/ en2_changed
           THEN /\ wtask' = [wtask EXCEPT
                      !.pc = "wait",
                      !.last_job_id = work.job_id,
                      !.last_extranonce2 =
                          CopyExtranonce2(work, wtask.last_extranonce2),
                      !.last_en2_len = work.extranonce2_len]
                /\ asic_jobs' = Append(asic_jobs, AsicJobOf(work))
           ELSE /\ wtask' = [wtask EXCEPT !.pc = "wait"]
                /\ UNCHANGED asic_jobs
    /\ UNCHANGED <<g_slave, worker_notify, found_share, slave_recent_shares,
                   frames_rx>>
    /\ UNCHANGED notWorker

\* cluster_slave_on_share_found as cluster_slave.c defines it: four
\* parameters, and the share's extranonce2 copied from current_work.
cluster_slave_on_share_found(nonce, job_id, found_by) ==
    IF ~g_slave.work_valid \/ <<nonce, job_id>> \in slave_recent_shares
    THEN UNCHANGED <<found_share, slave_recent_shares>>
    ELSE /\ slave_recent_shares' = slave_recent_shares \union {<<nonce, job_id>>}
         /\ found_share' =
                [found_by |-> found_by, nonce |-> nonce, job_id |-> job_id,
                 extranonce2 |-> g_slave.current_work.extranonce2,
                 extranonce2_len |-> g_slave.current_work.extranonce2_len]

\* cluster_slave_intercept_share for a nonce the ASIC reports for the job
\* it was given as the j-th: the job's extranonce2 is looked up and handed
\* to cluster_slave_on_share_found as a fifth argument, which the function
\* does not have.
cluster_slave_intercept_share(j, nonce) ==
    /\ frames_rx.finds < MaxFinds
    /\ j \in DOMAIN asic_jobs
    /\ frames_rx' = [frames_rx EXCEPT !.finds = @ + 1]
    /\ cluster_slave_on_share_found(nonce, asic_jobs[j].job_id, j)
    /\ UNCHANGED <<g_slave, worker_notify, wtask, asic_jobs>>
    /\ UNCHANGED notWorker

NextWorker ==
    \/ \E id \in AssignedIds : cluster_slave_handle_ack(id)
    \/ \E work \in WorkFrames : cluster_slave_receive_work(work)
    \/ WorkerTake
    \/ WorkerSubmit
    \/ \E j \in 1..MaxWorkFrames, nonce \in FoundNonces :
           cluster_slave_intercept_share(j, nonce)

SpecWorker == Init /\ [][NextWorker]_vars

\* worker_task is a task of its own that blocks for at most 1000 ms at a
\* time: the scheduler runs each of its steps.
SpecWorkerFair ==
    Init /\ [][NextWorker]_vars /\ WF_vars(WorkerTake) /\ WF_vars(WorkerSubmit)

\* ------------------------------------------------------------------------
\* The copies of current_work (cluster_master.c)
\* ------------------------------------------------------------------------

\* Notifies the pool sends.
MaxNotifies == 2

\* The header fields of cluster_work_t in the order of the struct
\* (cluster.h:92-106): job_id, prev_block_hash, version, nbits, ntime,
\* pool_id. memcpy and the struct assignment move them in this order.
WorkHeaderFields == 1..6

\* The tasks that pass &g_master->current_work to send_work_to_slave: the
\* supervisor (rebroadcast) and the receive task (registration).
CopyingTasks == {"coord", "rx"}

\* cluster_master_distribute_work is entered with the work of a new notify
\* and takes work_mutex.
StoreBegin ==
    /\ storer.pc = "idle"
    /\ storer.notify < MaxNotifies
    /\ storer' = [pc |-> "memcpy", pos |-> 1, notify |-> storer.notify + 1]
    /\ UNCHANGED <<stored_header, header_valid, copiers, clwrk>>
    /\ UNCHANGED notHeader

\* memcpy(&g_master->current_work, work, ...), one field at a time; after the
\* last one work_valid is set and work_mutex given.
StoreField ==
    /\ storer.pc = "memcpy"
    /\ stored_header' = [stored_header EXCEPT ![storer.pos] = storer.notify]
    /\ IF storer.pos = 6
       THEN /\ storer' = [storer EXCEPT !.pc = "send", !.pos = 1]
            /\ header_valid' = TRUE
       ELSE /\ storer' = [storer EXCEPT !.pos = @ + 1]
            /\ UNCHANGED header_valid
    /\ UNCHANGED <<copiers, clwrk>>
    /\ UNCHANGED notHeader

\* The fan-out hands send_work_to_slave the caller's own work, which no
\* other task writes: slave_work = *work copies one notify.
FanoutFrame ==
    /\ storer.pc = "send"
    /\ clwrk' = [by |-> "stratum",
                 hdr |-> [f \in WorkHeaderFields |-> storer.notify]]
    /\ storer' = [storer EXCEPT !.pc = "idle"]
    /\ UNCHANGED <<stored_header, header_valid, copiers>>
    /\ UNCHANGED notHeader

\* The supervisor's rebroadcast and the registration handler call
\* send_work_to_slave(&g_master->current_work) once work_valid is set,
\* without taking work_mutex.
CopyBegin(t) ==
    /\ copiers[t].pc = "idle"
    /\ header_valid
    /\ copiers' = [copiers EXCEPT ![t].pc = "copy", ![t].pos = 1]
    /\ UNCHANGED <<stored_header, header_valid, storer, clwrk>>
    /\ UNCHANGED notHeader

\* slave_work = *work, one field at a time; the frame is encoded from
\* slave_work once the copy is complete, and slave_work ends with the call.
CopyField(t) ==
    /\ copiers[t].pc = "copy"
    /\ LET hdr == [copiers[t].hdr EXCEPT
                      ![copiers[t].pos] = stored_header[copiers[t].pos]]
       IN IF copiers[t].pos = 6
          THEN /\ copiers' = [copiers EXCEPT ![t].pc = "idle", ![t].pos = 1,
                                             ![t].hdr = <<0, 0, 0, 0, 0, 0>>]
               /\ clwrk' = [by |-> t, hdr |-> hdr]
          ELSE /\ copiers' = [copiers EXCEPT ![t].pos = @ + 1, ![t].hdr = hdr]
               /\ UNCHANGED clwrk
    /\ UNCHANGED <<stored_header, header_valid, storer>>
    /\ UNCHANGED notHeader

NextHeader ==
    \/ StoreBegin
    \/ StoreField
    \/ FanoutFrame
    \/ \E t \in CopyingTasks : CopyBegin(t)
    \/ \E t \in CopyingTasks : CopyField(t)

SpecHeader == Init /\ [][NextHeader]_vars

\* ------------------------------------------------------------------------
\* The registry mutex and the transport sends (cluster_master.c)
\* ------------------------------------------------------------------------

\* A handler is the sequence of what it does with slaves_mutex and with the
\* transport: "take", "give", and "send" for one cluster_espnow_send,
\* cluster_espnow_broadcast or BAP_uart_send_raw.

\* Slots a fan-out or a rebroadcast sends to.
MaxTargets == 2

\* calculate_nonce_ranges: the partition is written under the mutex.
NonceRangeSteps == <<"take", "give">>

\* send_work_to_slave: nothing for a slot that is not Active, else the
\* three broadcasts of the frame.
SendWorkSteps(active) == IF active THEN <<"send", "send", "send">> ELSE <<>>

RECURSIVE SendWorkToEach(_)
SendWorkToEach(targets) ==
    IF targets = <<>> THEN <<>>
    ELSE SendWorkSteps(Head(targets)) \o SendWorkToEach(Tail(targets))

\* handle_registration_internal as it would be with the CLACK sent before
\* the mutex is given.
RegistrationStepsAckLocked(has_slot, valid, active) ==
    IF ~has_slot THEN <<"take", "give">>
    ELSE <<"take", "send", "give">> \o NonceRangeSteps
         \o (IF valid THEN SendWorkSteps(active) ELSE <<>>)

\* handle_registration_internal: without a slot the mutex is given and the
\* handler returns; else the slot is filled, the mutex given, the CLACK
\* sent, the partition recomputed and, with valid work, the work sent.
RegistrationSteps(has_slot, valid, active) ==
    IF ~has_slot THEN <<"take", "give">>
    ELSE <<"take", "give", "send">> \o NonceRangeSteps
         \o (IF valid THEN SendWorkSteps(active) ELSE <<>>)

\* cluster_master_handle_heartbeat_ex: the slot is updated under the mutex,
\* the response sent after it.
HeartbeatSteps == <<"take", "give", "send">>

\* cluster_master_distribute_work: the partition, the snapshot of the
\* Active ids under the mutex, then the sends.
DistributeSteps(targets) ==
    NonceRangeSteps \o <<"take", "give">> \o SendWorkToEach(targets)

\* One pass of coordinator_task: the scan under the mutex, the deferred
\* recompute, then the rebroadcasts.
CoordinatorSteps(needs_recalc, targets) ==
    <<"take", "give">> \o (IF needs_recalc THEN NonceRangeSteps ELSE <<>>)
    \o SendWorkToEach(targets)

\* The target lists of a fan-out or a rebroadcast: for each target, whether
\* send_work_to_slave still finds the slot Active.
TargetLists ==
    UNION { [1..n -> BOOLEAN] : n \in 0..MaxTargets }

HandlersOf(t) ==
    IF t = "rx"
    THEN { RegistrationSteps(h, v, a) : h, v, a \in BOOLEAN }
         \union { HeartbeatSteps }
    ELSE IF t = "stratum"
    THEN { DistributeSteps(l) : l \in TargetLists }
    ELSE { CoordinatorSteps(r, l) : r \in BOOLEAN, l \in TargetLists }

LockTasks == {"rx", "stratum", "coord"}

\* A task enters one of its handlers.
EnterHandler(t) ==
    /\ callers[t].todo = <<>>
    /\ \E steps \in HandlersOf(t) :
           callers' = [callers EXCEPT ![t].todo = steps]
    /\ UNCHANGED slaves_mutex
    /\ UNCHANGED notLock

\* xSemaphoreTake(g_master->slaves_mutex, portMAX_DELAY)
TakeSlavesMutex(t) ==
    /\ callers[t].todo # <<>> /\ Head(callers[t].todo) = "take"
    /\ slaves_mutex = "none"
    /\ slaves_mutex' = t
    /\ callers' = [callers EXCEPT ![t].todo = Tail(@)]
    /\ UNCHANGED notLock

\* xSemaphoreGive(g_master->slaves_mutex)
GiveSlavesMutex(t) ==
    /\ callers[t].todo # <<>> /\ Head(callers[t].todo) = "give"
    /\ slaves_mutex' = "none"
    /\ callers' = [callers EXCEPT ![t].todo = Tail(@)]
    /\ UNCHANGED notLock

\* The task calls the transport.
TransportSendBegin(t) ==
    /\ callers[t].todo # <<>> /\ Head(callers[t].todo) = "send"
    /\ ~callers[t].sending
    /\ callers' = [callers EXCEPT ![t].sending = TRUE]
    /\ UNCHANGED slaves_mutex
    /\ UNCHANGED notLock

\* The transport returns.
TransportSendEnd(t) ==
    /\ callers[t].sending
    /\ callers' = [callers EXCEPT ![t].sending = FALSE, ![t].todo = Tail(@)]
    /\ UNCHANGED slaves_mutex
    /\ UNCHANGED notLock

NextLocks ==
    \/ \E t \in LockTasks : EnterHandler(t)
    \/ \E t \in LockTasks : TakeSlavesMutex(t)
    \/ \E t \in LockTasks : GiveSlavesMutex(t)
    \/ \E t \in LockTasks : TransportSendBegin(t)
    \/ \E t \in LockTasks : TransportSendEnd(t)

SpecLocks == Init /\ [][NextLocks]_vars

\* ------------------------------------------------------------------------
\* The ESP-NOW transport (cluster_espnow.c)
\* ------------------------------------------------------------------------

\* Transmits the Wi-Fi driver holds at one time.
MaxInFlight == 2

\* The tasks that send through cluster_espnow_send, and discovery_task.
SendingTasks == {"rx", "stratum", "coord"}
DiscoveryTask == "disc"

\* cluster_espnow_send up to the peer check: send_mutex is taken (a caller
\* that waits 50 ms in vain returns ESP_ERR_TIMEOUT and has changed
\* nothing); when esp_now_add_peer fails the mutex is given back.
SendEnter(t) ==
    /\ senders[t] = "idle"
    /\ send_mutex = "none"
    /\ \E peer_ok \in BOOLEAN :
         IF peer_ok
         THEN /\ send_mutex' = t
              /\ senders' = [senders EXCEPT ![t] = "clear"]
         ELSE UNCHANGED <<send_mutex, senders>>
    /\ UNCHANGED <<send_sem, last_send_status, in_flight, consumed>>
    /\ UNCHANGED notRadio

\* A pending signal is cleared and esp_now_send called: the driver takes
\* the transmit, or refuses it and the mutex is given back.
SendTransmit(t) ==
    /\ senders[t] = "clear"
    /\ send_sem' = [send_sem EXCEPT !.given = FALSE]
    /\ IF Len(in_flight) < MaxInFlight
       THEN /\ in_flight' = Append(in_flight, t)
            /\ senders' = [senders EXCEPT ![t] = "wait"]
            /\ UNCHANGED send_mutex
       ELSE /\ senders' = [senders EXCEPT ![t] = "idle"]
            /\ send_mutex' = "none"
            /\ UNCHANGED in_flight
    /\ UNCHANGED <<last_send_status, consumed>>
    /\ UNCHANGED notRadio

\* The sender takes send_sem within its 50 ms, reads last_send_status and
\* gives the mutex.
SendComplete(t) ==
    /\ senders[t] = "wait"
    /\ send_sem.given
    /\ send_sem' = [send_sem EXCEPT !.given = FALSE]
    /\ consumed' = [by |-> t, of |-> send_sem.of]
    /\ send_mutex' = "none"
    /\ senders' = [senders EXCEPT ![t] = "idle"]
    /\ UNCHANGED <<last_send_status, in_flight>>
    /\ UNCHANGED notRadio

\* The 50 ms pass without a signal: the sender gives the mutex and returns
\* ESP_ERR_TIMEOUT; its transmit stays with the driver.
SendTimeout(t) ==
    /\ senders[t] = "wait"
    /\ ~send_sem.given
    /\ send_mutex' = "none"
    /\ senders' = [senders EXCEPT ![t] = "idle"]
    /\ UNCHANGED <<send_sem, last_send_status, in_flight, consumed>>
    /\ UNCHANGED notRadio

\* espnow_send_cb for the oldest transmit: the status is stored and
\* send_sem given.
espnow_send_cb(status) ==
    /\ in_flight # <<>>
    /\ last_send_status' = status
    /\ send_sem' = [given |-> TRUE, of |-> Head(in_flight)]
    /\ in_flight' = Tail(in_flight)
    /\ UNCHANGED <<send_mutex, senders, consumed>>
    /\ UNCHANGED notRadio

\* discovery_task: the beacon goes to esp_now_send directly; a refusal is
\* logged.
discovery_task ==
    /\ Len(in_flight) < MaxInFlight
    /\ in_flight' = Append(in_flight, DiscoveryTask)
    /\ UNCHANGED <<send_mutex, send_sem, last_send_status, senders, consumed>>
    /\ UNCHANGED notRadio

NextRadio ==
    \/ \E t \in SendingTasks : SendEnter(t)
    \/ \E t \in SendingTasks : SendTransmit(t)
    \/ \E t \in SendingTasks : SendComplete(t)
    \/ \E t \in SendingTasks : SendTimeout(t)
    \/ \E status \in BOOLEAN : espnow_send_cb(status)
    \/ discovery_task

SpecRadio == Init /\ [][NextRadio]_vars

\* ------------------------------------------------------------------------
\* Job table (cluster_master_store_job_mapping,
\* cluster_master_find_job_mapping)
\* ------------------------------------------------------------------------

\* A lookup that finds nothing.
MISS == 0

\* A table that wraps one entry early.
JobMappingSlotShort(index) == index % (MAX_JOB_MAPPINGS - 1)

\* int idx = job_mapping_index % MAX_JOB_MAPPINGS
JobMappingSlot(index) == index % MAX_JOB_MAPPINGS

cluster_master_store_job_mapping(mappings, index, numeric_id, job_id_str, pool_id) ==
    [mappings EXCEPT
        ![JobMappingSlot(index)] =
            [valid |-> TRUE, numeric_id |-> numeric_id, pool_id |-> pool_id,
             job_id_str |-> job_id_str]]

\* The exact match with the lowest index; failing that, the entry with the
\* numeric id and the lowest index, whatever its pool; failing that, a miss.
cluster_master_find_job_mapping(numeric_id, pool_id) ==
    LET exact == {i \in DOMAIN job_mappings :
                     /\ job_mappings[i].valid
                     /\ job_mappings[i].numeric_id = numeric_id
                     /\ job_mappings[i].pool_id = pool_id}
        by_id == {i \in DOMAIN job_mappings :
                     /\ job_mappings[i].valid
                     /\ job_mappings[i].numeric_id = numeric_id}
    IN IF exact # {} THEN job_mappings[SetMin(exact)].job_id_str
       ELSE IF by_id # {} THEN job_mappings[SetMin(by_id)].job_id_str
       ELSE MISS

\* A notify the balancer let through is stored. Every notify carries a job
\* id string of its own (the number of the notify); follow says that this
\* mapping is the one followed from here on.
StoreMapping(numeric_id, pool_id, follow) ==
    /\ job_mapping_index < MaxStores
    /\ follow => ~probe.set
    /\ LET job_id_str == job_mapping_index + 1
           others == {i \in DOMAIN job_mappings :
                         /\ i # JobMappingSlot(job_mapping_index)
                         /\ job_mappings[i].valid
                         /\ job_mappings[i].numeric_id = numeric_id}
       IN /\ job_mappings' =
                cluster_master_store_job_mapping(job_mappings, job_mapping_index,
                                                 numeric_id, job_id_str, pool_id)
          /\ probe' =
                IF follow
                THEN [set |-> TRUE, numeric_id |-> numeric_id, pool_id |-> pool_id,
                      job_id_str |-> job_id_str, since |-> 0,
                      key_reused |-> (\E i \in others :
                                         job_mappings[i].pool_id = pool_id),
                      id_reused |-> (\E i \in others :
                                        job_mappings[i].pool_id # pool_id)]
                ELSE IF probe.set
                THEN [probe EXCEPT
                        !.since = @ + 1,
                        !.key_reused = @ \/ (numeric_id = probe.numeric_id
                                               /\ pool_id = probe.pool_id),
                        !.id_reused = @ \/ (numeric_id = probe.numeric_id
                                              /\ pool_id # probe.pool_id)]
                ELSE probe
    /\ job_mapping_index' = job_mapping_index + 1
    /\ UNCHANGED <<registryVars, shareVars, frameVars, extVars>>

NextJobMap ==
    \E n \in 1 .. MaxNumericId, p \in PoolIds, follow \in BOOLEAN :
        StoreMapping(n, p, follow)

SpecJobMap == Init /\ [][NextJobMap]_vars

\* ------------------------------------------------------------------------
\* Pool balancer (cluster_should_distribute_work)
\* ------------------------------------------------------------------------

\* Settings of the primary pool's percentage.
PoolBalances == {0, 25, 50, 99, 100}

BALANCE_WARMUP == 10

\* The percentage the balancer works with.
PrimaryPct(balance) ==
    IF balance <= 0 THEN 1 ELSE IF balance >= 100 THEN 99 ELSE balance

\* cluster_should_distribute_work: TRUE when the notify of pool_id goes on
\* to the fan-out.
cluster_should_distribute_work(pool_id) ==
    LET total == cluster_primary_distributed + cluster_secondary_distributed
        target_primary == (total * PrimaryPct(pool_balance)) \div 100
        target_secondary == total - target_primary
    IN IF total < BALANCE_WARMUP THEN TRUE
       ELSE IF pool_id = 0 THEN cluster_primary_distributed <= target_primary
       ELSE cluster_secondary_distributed <= target_secondary

\* The balance is set before the first notify of the run.
SetPoolBalance(balance) ==
    /\ offered = 0
    /\ pool_balance # balance
    /\ pool_balance' = balance
    /\ UNCHANGED <<cluster_primary_distributed, cluster_secondary_distributed,
                   offered>>
    /\ UNCHANGED notBalance

\* cluster_master_on_mining_notify up to the balancer's verdict: a notify of
\* pool_id is offered, and counted when it is let through.
OfferNotify(pool_id) ==
    /\ offered < MaxOffered
    /\ offered' = offered + 1
    /\ LET pass == cluster_should_distribute_work(pool_id)
       IN /\ cluster_primary_distributed' =
                IF pass /\ pool_id = 0 THEN cluster_primary_distributed + 1
                ELSE cluster_primary_distributed
          /\ cluster_secondary_distributed' =
                IF pass /\ pool_id # 0 THEN cluster_secondary_distributed + 1
                ELSE cluster_secondary_distributed
    /\ UNCHANGED pool_balance
    /\ UNCHANGED notBalance

NextBalance ==
    \/ \E balance \in PoolBalances : SetPoolBalance(balance)
    \/ \E pool_id \in PoolIds : OfferNotify(pool_id)

SpecBalance == Init /\ [][NextBalance]_vars

\* One pool only: the other pool never sends a notify (single-pool operation,
\* or a second pool that stays silent).
MaxOnePoolOffered == 110

\* The notifies let through so far per pool.
DistributedOf(pool_id) ==
    IF pool_id = 0 THEN cluster_primary_distributed
    ELSE cluster_secondary_distributed

\* pool_id is the only pool that has had a notify let through.
OnlyPool(pool_id) ==
    \A other \in PoolIds \ {pool_id} : DistributedOf(other) = 0

\* cluster_master_on_mining_notify up to the balancer's verdict, for a notify
\* of the one pool that sends any.
OfferFromOnlyPool(pool_id) ==
    /\ OnlyPool(pool_id)
    /\ offered < MaxOnePoolOffered
    /\ offered' = offered + 1
    /\ LET pass == cluster_should_distribute_work(pool_id)
       IN /\ cluster_primary_distributed' =
                IF pass /\ pool_id = 0 THEN cluster_primary_distributed + 1
                ELSE cluster_primary_distributed
          /\ cluster_secondary_distributed' =
                IF pass /\ pool_id # 0 THEN cluster_secondary_distributed + 1
                ELSE cluster_secondary_distributed
    /\ UNCHANGED pool_balance
    /\ UNCHANGED notBalance

NextOnePool ==
    \/ \E balance \in PoolBalances : SetPoolBalance(balance)
    \/ \E pool_id \in PoolIds : OfferFromOnlyPool(pool_id)

SpecOnePool == Init /\ [][NextOnePool]_vars

\* ------------------------------------------------------------------------
\* The merkle root of a work frame (store_notify_data,
\* cluster_master_compute_merkle_root, send_work_to_slave)
\* ------------------------------------------------------------------------

\* send_work_to_slave declares cluster_master_compute_merkle_root with three
\* parameters and calls it with three; the function takes pool_id as a fourth.
\* The value the function finds there is whatever the caller left in that
\* argument register: one of each kind is drawn.
PoolArguments == {0, 1, 2}

\* The snapshot cluster_master_compute_merkle_root reads.
StoredPool(pool_id) == IF pool_id > 1 THEN 0 ELSE pool_id

\* cluster_master_compute_merkle_root as send_work_to_slave calls it: the
\* notify whose coinbase and branches make the root, 0 when the snapshot is
\* not valid and the call returns false.
cluster_master_compute_merkle_root(stored, pool_id) == stored[StoredPool(pool_id)]

\* send_work_to_slave for a slave that is Active: the frame carries the
\* work's job_id and header fields and the root computed at the send.
send_work_frame(work, stored, pool_id, resent) ==
    [sent |-> TRUE, notify |-> work.notify, pool_id |-> work.pool_id,
     merkle_of |-> cluster_master_compute_merkle_root(stored, pool_id),
     resent |-> resent]

\* cluster_master_on_mining_notify with one slave Active: the snapshot of
\* the notify's pool is stored; when the balancer lets the notify through,
\* cluster_master_distribute_work stores the work and sends it.
MerkleNotify(pool_id, pool_argument) ==
    /\ offered < MaxOffered
    /\ offered' = offered + 1
    /\ LET notify == offered + 1
           stored == [g_stored_notify EXCEPT ![StoredPool(pool_id)] = notify]
           pass == cluster_should_distribute_work(pool_id)
           work == [valid |-> TRUE, notify |-> notify, pool_id |-> pool_id]
       IN /\ g_stored_notify' = stored
          /\ cluster_primary_distributed' =
                IF pass /\ pool_id = 0 THEN cluster_primary_distributed + 1
                ELSE cluster_primary_distributed
          /\ cluster_secondary_distributed' =
                IF pass /\ pool_id # 0 THEN cluster_secondary_distributed + 1
                ELSE cluster_secondary_distributed
          /\ IF pass
             THEN /\ work_origin' = work
                  /\ clwrk_origin' =
                        send_work_frame(work, stored, pool_argument, FALSE)
             ELSE UNCHANGED <<work_origin, clwrk_origin>>
    /\ UNCHANGED pool_balance
    /\ UNCHANGED notMerkleBalance

\* The two other callers of send_work_to_slave: the registration handler's
\* immediate work and the supervisor's rebroadcast, both with current_work.
MerkleResend(pool_argument) ==
    /\ work_origin.valid
    /\ clwrk_origin' =
          send_work_frame(work_origin, g_stored_notify, pool_argument, TRUE)
    /\ UNCHANGED <<g_stored_notify, work_origin>>
    /\ UNCHANGED notMerkle

NextMerkle ==
    \/ \E balance \in PoolBalances : SetPoolBalance(balance)
    \/ \E pool_id \in PoolIds, pool_argument \in PoolArguments :
          MerkleNotify(pool_id, pool_argument)
    \/ \E pool_argument \in PoolArguments : MerkleResend(pool_argument)

SpecMerkle == Init /\ [][NextMerkle]_vars

\* ------------------------------------------------------------------------
\* Worker devices and the ids they hold (cluster_slave_handle_ack)
\* ------------------------------------------------------------------------

\* Device d has hostname d and link address d.
Devices == {1, 2}

\* cluster_slave_handle_ack: the id of the ACK is taken and registered set,
\* whatever the device's state and whatever hostname the ACK names.
cluster_slave_handle_ack_of(device, assigned_id) ==
    [registered |-> TRUE, my_id |-> assigned_id]

\* slave_task sends a registration while the device is not registered. The
\* Coordinator's handler takes a slot and answers with the ACK: to the
\* device's link address over ESP-NOW, or with BAP_uart_send_raw when the
\* registration came without one, where every device on the line reads it.
DeviceRegisters(d, over_uart) ==
    /\ ~devices[d].registered
    /\ tasks["rx"].pc = "idle"
    /\ slave_count < MaxSlaveCount
    /\ LET hostname == d
           mac == IF over_uart THEN NoMac ELSE d
           slot == FindSlot(hostname, mac)
       IN IF slot < 0
          THEN UNCHANGED <<slaves, slave_count, tasks, devices>>
          ELSE /\ slaves' = [slaves EXCEPT
                               ![slot].state = SLAVE_STATE_ACTIVE,
                               ![slot].hostname = hostname,
                               ![slot].mac = mac,
                               ![slot].last_heartbeat = now]
               /\ slave_count' = (slave_count + 1) % 256
               /\ tasks' = [tasks EXCEPT
                              !["rx"].pc = "calc",
                              !["rx"].reg =
                                  [slot |-> slot, hostname |-> hostname, mac |-> mac,
                                   old_state |-> slaves[slot].state,
                                   old_hostname |-> slaves[slot].hostname,
                                   old_mac |-> slaves[slot].mac]]
               /\ devices' = [e \in Devices |->
                                IF e = d \/ over_uart
                                THEN cluster_slave_handle_ack_of(devices[e], slot)
                                ELSE devices[e]]
    /\ recalcDone' = FALSE
    /\ UNCHANGED notDevice
    /\ UNCHANGED <<work_valid, current_work, now, lastTx, jobsIssued>>

\* cluster_slave_send_heartbeat of a registered device, with the id it holds,
\* and the Coordinator's handler.
DeviceSendsHeartbeat(d, over_uart) ==
    /\ devices[d].registered
    /\ Heartbeat(devices[d].my_id, IF over_uart THEN NoMac ELSE d)

NextDevices ==
    \/ \E d \in Devices, over_uart \in BOOLEAN : DeviceRegisters(d, over_uart)
    \/ RegisterRecalc
    \/ \E d \in Devices, over_uart \in BOOLEAN : DeviceSendsHeartbeat(d, over_uart)
    \/ CoordScan
    \/ CoordRecalc
    \/ Tick

SpecDevices == Init /\ [][NextDevices]_vars

\* ------------------------------------------------------------------------
\* A share from the ASIC's result to the Stratum queue (slave_is_duplicate,
\* cluster_slave_on_share_found, is_duplicate_share,
\* cluster_master_receive_share)
\* ------------------------------------------------------------------------

\* Entries of either ring in this part (the build has 16 and 32), and the
\* shares on the way at one time.
ProofRingSize == 2
MaxOnLink == 2

\* The results an ASIC reports for the work of one Worker: nonce, job_id,
\* the rolled version, and the extranonce2 of the Worker's current work at
\* the time of the result.
ProofNonces == {7, 8}
ProofJobIds == {1}
RolledVersions == {1, 2}
ProofExtranonce2s == {1, 2}
ProofSlave == 0

\* <<>> is an entry whose valid is false.
RingHas(ring, key) == \E i \in DOMAIN ring.entries : ring.entries[i] = key

RingRecord(ring, key) ==
    [idx |-> (ring.idx + 1) % ProofRingSize,
     entries |-> [ring.entries EXCEPT ![ring.idx] = key]]

\* slave_is_duplicate compares nonce and job_id.
slave_is_duplicate(nonce, job_id) == RingHas(worker_ring, <<nonce, job_id>>)

\* is_duplicate_share compares nonce, job_id and slave_id.
is_duplicate_proof(share) ==
    RingHas(master_ring, <<share.nonce, share.job_id, share.slave_id>>)

\* cluster_slave_on_share_found with valid work: a result whose nonce and
\* job_id are in the ring is ignored; any other is recorded and queued for
\* the Coordinator with the version the ASIC rolled and the extranonce2 of
\* the current work.
ProofFound(nonce, job_id, version, extranonce2) ==
    /\ Len(clshr_link) < MaxOnLink
    /\ LET share == [nonce |-> nonce, job_id |-> job_id, version |-> version,
                     extranonce2 |-> extranonce2, slave_id |-> ProofSlave]
       IN /\ proofs_found' = proofs_found \cup {share}
          /\ IF slave_is_duplicate(nonce, job_id)
             THEN UNCHANGED <<worker_ring, clshr_link>>
             ELSE /\ worker_ring' = RingRecord(worker_ring, <<nonce, job_id>>)
                  /\ clshr_link' = Append(clshr_link, share)
    /\ UNCHANGED <<master_ring, to_stratum>>
    /\ UNCHANGED notProof

\* cluster_master_receive_share for the oldest share on the way: a share
\* whose nonce, job_id and slave_id are in the ring is ignored; any other is
\* recorded and queued for Stratum (the queue has room).
ProofReceived ==
    /\ clshr_link # <<>>
    /\ LET share == Head(clshr_link)
       IN /\ clshr_link' = Tail(clshr_link)
          /\ IF is_duplicate_proof(share)
             THEN UNCHANGED <<master_ring, to_stratum>>
             ELSE /\ master_ring' =
                        RingRecord(master_ring,
                                   <<share.nonce, share.job_id, share.slave_id>>)
                  /\ to_stratum' = to_stratum \cup {share}
    /\ UNCHANGED <<proofs_found, worker_ring>>
    /\ UNCHANGED notProof

NextProofs ==
    \/ \E nonce \in ProofNonces, job_id \in ProofJobIds,
          version \in RolledVersions, extranonce2 \in ProofExtranonce2s :
            ProofFound(nonce, job_id, version, extranonce2)
    \/ ProofReceived

SpecProofs == Init /\ [][NextProofs]_vars

\* ------------------------------------------------------------------------
\* The tasks of the Tuner (cluster_autotune_start, cluster_autotune_stop,
\* cluster_autotune_task), with the task a start creates told apart from
\* the one before it
\* ------------------------------------------------------------------------

\* Tasks that exist at one time, and the cells one sweep tests.
MaxTunerTasks == 2
MaxSweepCells == 2

TunerTaskIds == 1 .. MaxTunerTasks
SweepCells == {<<500, 1150>>, <<525, 1200>>}

NoSweeper == [pc |-> "none", tested |-> 0, frequency |-> 0, voltage |-> 0]

\* The tasks that exist.
AliveTunerTasks == {i \in TunerTaskIds : sweepers[i].pc # "none"}

\* cluster_autotune_start: refused while task_running is set; otherwise
\* xTaskCreate makes a task and task_running is set.
TunerStart(mode) ==
    /\ ~g_autotune.task_running
    /\ AliveTunerTasks # TunerTaskIds
    /\ LET i == SetMin(TunerTaskIds \ AliveTunerTasks)
       IN sweepers' = [sweepers EXCEPT ![i] = [NoSweeper EXCEPT !.pc = "created"]]
    /\ g_autotune' = [g_autotune EXCEPT
                         !.state = AUTOTUNE_STATE_STARTING,
                         !.mode = mode,
                         !.tests_completed = 0,
                         !.tests_total = get_freq_step_count(mode)
                                            * get_voltage_step_count(mode),
                         !.current_frequency = hw.frequency,
                         !.current_voltage = hw.voltage,
                         !.task_handle = TRUE,
                         !.task_running = TRUE]
    /\ UNCHANGED <<mutex, hw, tune, stopper, grid, wd>>
    /\ UNCHANGED notSweeper

\* cluster_autotune_stop: task_running is cleared, the caller sleeps 100 ms,
\* applies the best settings when asked to and when there are any, and sets
\* the state Idle. Nothing waits for the task.
TunerStop(apply_best, vin_low) ==
    /\ g_autotune.task_running
    /\ LET apply == /\ apply_best
                    /\ g_autotune.best_frequency > 0
                    /\ g_autotune.best_voltage > 0
           applied == AppliedSettings(g_autotune.best_frequency,
                                      g_autotune.best_voltage, vin_low)
       IN /\ hw' = IF apply THEN applied ELSE hw
          /\ g_autotune' =
                [g_autotune EXCEPT
                    !.task_running = FALSE,
                    !.state = AUTOTUNE_STATE_IDLE,
                    !.current_frequency = IF apply THEN applied.frequency ELSE @,
                    !.current_voltage = IF apply THEN applied.voltage ELSE @]
    /\ UNCHANGED <<mutex, tune, stopper, grid, wd, sweepers>>
    /\ UNCHANGED notSweeper

\* The start of cluster_autotune_task: the base settings are applied and the
\* task enters the stabilization delay.
SweeperBase(i, vin_low) ==
    /\ sweepers[i].pc = "created"
    /\ LET applied == AppliedSettings(FREQ_BASE_MHZ, VOLTAGE_BASE_MV, vin_low)
       IN /\ hw' = applied
          /\ g_autotune' = [g_autotune EXCEPT
                               !.state = AUTOTUNE_STATE_STABILIZING,
                               !.current_frequency = applied.frequency,
                               !.current_voltage = applied.voltage]
    /\ sweepers' = [sweepers EXCEPT ![i].pc = "stabilize"]
    /\ UNCHANGED <<mutex, tune, stopper, grid, wd>>
    /\ UNCHANGED notSweeper

\* The stabilization delay is over: the task goes on when it reads
\* task_running set, and deletes itself otherwise (task_handle stays).
SweeperStabilized(i) ==
    /\ sweepers[i].pc = "stabilize"
    /\ sweepers' = [sweepers EXCEPT
                       ![i] = IF g_autotune.task_running
                              THEN [@ EXCEPT !.pc = "sweep"]
                              ELSE NoSweeper]
    /\ UNCHANGED tunerVars
    /\ UNCHANGED notSweeper

\* One pass of the loops: the task reads task_running set, applies the
\* cell and enters the delays of the test.
SweeperApplyCell(i, cell, vin_low) ==
    /\ sweepers[i].pc = "sweep"
    /\ sweepers[i].tested < MaxSweepCells
    /\ g_autotune.task_running
    /\ LET applied == AppliedSettings(cell[1], cell[2], vin_low)
       IN /\ hw' = applied
          /\ g_autotune' = [g_autotune EXCEPT
                               !.state = AUTOTUNE_STATE_TESTING,
                               !.current_frequency = applied.frequency,
                               !.current_voltage = applied.voltage]
    /\ sweepers' = [sweepers EXCEPT ![i].pc = "sample",
                                    ![i].frequency = cell[1],
                                    ![i].voltage = cell[2]]
    /\ UNCHANGED <<mutex, tune, stopper, grid, wd>>
    /\ UNCHANGED notSweeper

\* The delays of the test are over: a task that reads task_running cleared
\* leaves the loops; otherwise the cell is counted and, when it is the best
\* so far, stored in the status.
SweeperSampled(i, better) ==
    /\ sweepers[i].pc = "sample"
    /\ sweepers' = [sweepers EXCEPT
                       ![i].pc = "sweep",
                       ![i].tested = IF g_autotune.task_running THEN @ + 1 ELSE @]
    /\ g_autotune' =
          IF g_autotune.task_running
          THEN [g_autotune EXCEPT
                   !.tests_completed = @ + 1,
                   !.best_frequency = IF better THEN sweepers[i].frequency ELSE @,
                   !.best_voltage = IF better THEN sweepers[i].voltage ELSE @]
          ELSE g_autotune
    /\ UNCHANGED <<mutex, hw, tune, stopper, grid, wd>>
    /\ UNCHANGED notSweeper

\* After the loops: the best cell the status holds stands for the task's
\* own. The final state is written, task_running and task_handle are
\* cleared and the task deletes itself.
SweeperEnd(i, vin_low) ==
    /\ sweepers[i].pc = "sweep"
    /\ sweepers[i].tested = MaxSweepCells \/ ~g_autotune.task_running
    /\ LET apply == /\ g_autotune.task_running
                    /\ g_autotune.best_frequency > 0
                    /\ g_autotune.best_voltage > 0
           applied == AppliedSettings(g_autotune.best_frequency,
                                      g_autotune.best_voltage, vin_low)
       IN /\ hw' = IF apply THEN applied ELSE hw
          /\ g_autotune' =
                [g_autotune EXCEPT
                    !.state = IF g_autotune.task_running
                              THEN AUTOTUNE_STATE_LOCKED ELSE AUTOTUNE_STATE_IDLE,
                    !.current_frequency = IF apply THEN applied.frequency ELSE @,
                    !.current_voltage = IF apply THEN applied.voltage ELSE @,
                    !.task_running = FALSE,
                    !.task_handle = FALSE]
    /\ sweepers' = [sweepers EXCEPT ![i] = NoSweeper]
    /\ UNCHANGED <<mutex, tune, stopper, grid, wd>>
    /\ UNCHANGED notSweeper

NextSweepers ==
    \/ \E mode \in TunedModes : TunerStart(mode)
    \/ \E apply_best \in BOOLEAN, vin_low \in BOOLEAN : TunerStop(apply_best, vin_low)
    \/ \E i \in TunerTaskIds, vin_low \in BOOLEAN : SweeperBase(i, vin_low)
    \/ \E i \in TunerTaskIds : SweeperStabilized(i)
    \/ \E i \in TunerTaskIds, cell \in SweepCells, vin_low \in BOOLEAN :
          SweeperApplyCell(i, cell, vin_low)
    \/ \E i \in TunerTaskIds, better \in BOOLEAN : SweeperSampled(i, better)
    \/ \E i \in TunerTaskIds, vin_low \in BOOLEAN : SweeperEnd(i, vin_low)

SpecSweepers == Init /\ [][NextSweepers]_vars

\* ------------------------------------------------------------------------
\* Properties of the registry, the partitioner and the fan-out
\* ------------------------------------------------------------------------

AllIdle == \A t \in TaskIds : tasks[t].pc = "idle"

\* The range [start, start + size - 1] of a slot and of the Coordinator,
\* as the half-open interval [lo, hi) of wide values.
SlaveRange(i) ==
    [lo |-> slaves[i].nonce_range_start,
     hi |-> WAdd(slaves[i].nonce_range_start, slaves[i].nonce_range_size)]

LocalRange ==
    [lo |-> WZero, hi |-> cluster_master_get_local_nonce_range.size]

RangesDisjoint(a, b) ==
    \/ a.lo = a.hi
    \/ b.lo = b.hi
    \/ WLe(a.hi, b.lo)
    \/ WLe(b.hi, a.lo)

\* C1: whenever no handler is in progress, the nonce ranges of any two
\* Active workers are disjoint from each other and from the Coordinator's
\* own slot-0 range.
C1_ActiveRangesDisjoint ==
    AllIdle =>
        /\ \A i \in ActiveSet : \A j \in ActiveSet :
              i # j => RangesDisjoint(SlaveRange(i), SlaveRange(j))
        /\ \A i \in ActiveSet : RangesDisjoint(SlaveRange(i), LocalRange)

\* C6: every CLWRK frame put on the air is addressed to a slot that is
\* Active at the moment of the transmit.
C6_WorkOnlyToActive ==
    lastTx.valid => lastTx.target_state = SLAVE_STATE_ACTIVE

\* The registration the receive task has just assigned a slot to.
JustRegistered == tasks["rx"].pc = "calc"

TookOverOccupied ==
    /\ JustRegistered
    /\ tasks["rx"].reg.old_state # SLAVE_STATE_DISCONNECTED
    /\ tasks["rx"].reg.mac # tasks["rx"].reg.old_mac

\* C7 (as amended): a registration whose link address differs from the one
\* a non-Disconnected slot holds is given that slot only when it carries the
\* hostname the slot holds.
C7_TakeoverOnlyBySameHostname ==
    TookOverOccupied => tasks["rx"].reg.hostname = tasks["rx"].reg.old_hostname

\* C7 (as stated): a registration from a device with another link address
\* never takes over a non-Disconnected slot.
C7_NoTakeoverOfOccupiedSlot == ~TookOverOccupied

\* A device with a link address of its own has taken over the occupied slot
\* of a device with another link address.
C7_Witness ==
    /\ TookOverOccupied
    /\ tasks["rx"].reg.mac # NoMac
    /\ tasks["rx"].reg.old_mac # NoMac

\* The CLWRK frames the tasks hold between the build and the last transmit.
FramesBuilt == {tasks[t].snd.frame : t \in {u \in TaskIds : tasks[u].pc = "tx"}}

\* C8 (as amended): in work built for an extranonce2 of at least one byte,
\* byte 0 is the worker id plus one, is never 0, and differs between frames
\* for distinct worker ids.
C8_Byte0IsIdPlusOne ==
    /\ \A f \in FramesBuilt :
          f.extranonce2_len >= 1 =>
              /\ f.extranonce2[0] = f.target_slave_id + 1
              /\ f.extranonce2[0] # 0
    /\ \A f \in FramesBuilt : \A g \in FramesBuilt :
          (f.target_slave_id # g.target_slave_id
             /\ f.extranonce2_len >= 1 /\ g.extranonce2_len >= 1)
          => f.extranonce2[0] # g.extranonce2[0]

\* C8 (as stated): in all work built, byte 0 of extranonce2 is the worker id
\* plus one, never 0, and differs between frames for distinct worker ids.
C8_Byte0Always ==
    /\ \A f \in FramesBuilt :
          /\ f.extranonce2[0] = f.target_slave_id + 1
          /\ f.extranonce2[0] # 0
    /\ \A f \in FramesBuilt : \A g \in FramesBuilt :
          f.target_slave_id # g.target_slave_id
          => f.extranonce2[0] # g.extranonce2[0]

\* Two tasks hold work for two distinct workers, built for a 4-byte
\* extranonce2.
C8_Witness ==
    \E f \in FramesBuilt : \E g \in FramesBuilt :
        /\ f.target_slave_id # g.target_slave_id
        /\ f.extranonce2_len >= 1
        /\ g.extranonce2_len >= 1

\* Sum of the range sizes of the Active slots plus the size of the
\* Coordinator's own slot.
AssignedTotal ==
    WAdd(WSum([i \in Slots |-> slaves[i].nonce_range_size], ActiveSet),
         cluster_master_get_local_nonce_range.size)

TotalNodes == 1 + Cardinality(ActiveSet)

\* C9 (as amended): right after a recompute with N nodes, the assigned sizes
\* add up to N * floor((2^32 - 1) / N).
C9_SumIsNTimesFloorOfMax ==
    recalcDone => AssignedTotal = WMul(TotalNodes, WDiv(NONCE_SPACE, TotalNodes))

\* C9 (as stated): right after a recompute with N nodes, the assigned sizes
\* add up to N * floor(2^32 / N).
C9_SumIsNTimesFloorOfTwoPow32 ==
    recalcDone => AssignedTotal = WMul(TotalNodes, WDiv(TwoPow32, TotalNodes))

\* A recompute has just run with one Active worker (N = 2).
C9_Witness == recalcDone /\ Cardinality(ActiveSet) = 1

\* Work is due for slot i: the slot is Active, the Coordinator holds valid
\* work and more than 10 s have passed since work was last sent to the slot.
WorkDue(i) ==
    /\ IsActive(i)
    /\ work_valid
    /\ now - slaves[i].last_work_sent > WORK_REBROADCAST_INTERVAL_MS

\* A task is transmitting a CLWRK frame built for slot i.
Transmitting(i) ==
    \E t \in TaskIds :
        tasks[t].pc = "tx" /\ tasks[t].snd.frame.target_slave_id = i

C2_DuplicateForwardedOnce ==
    \A i \in DOMAIN recent_shares :
        (recent_shares[i].valid /\ recent_shares[i].receptions >= 2)
        => recent_shares[i].queued

\* C3: a share submitted while both pools are connected goes out on the
\* socket of the pool that issued the work it was mined on.
C3_SubmitOnIssuingPool ==
    (lastSubmit.valid /\ lastSubmit.secondary_connected)
    => lastSubmit.sock = lastSubmit.mined_pool

\* C4: a pool result for request id r from pool q that credits a worker
\* credits the worker whose share went to pool q under r, and clears that
\* share's pending entry.
C4_ResultCreditsOwner ==
    (lastResult.valid /\ lastResult.credited # NoSlave)
    => /\ lastResult.credited = lastResult.owner
       /\ lastResult.cleared_sock = lastResult.sock

\* ------------------------------------------------------------------------
\* Properties of the receive paths
\* ------------------------------------------------------------------------

\* The two characters after the checksum marker are the hexadecimal digits
\* of the XOR of the characters between the frame start and the marker.
ChecksumMatches(frame) ==
    LET end == FirstIndex(frame, CLUSTER_MSG_CHECKSUM, 2)
    IN /\ end # 0
       /\ Len(frame) - end >= 2
       /\ LET x == XorAll(SubSeq(frame, 2, end - 1))
          IN /\ frame[end + 1] = HexDigit(x \div 16)
             /\ frame[end + 2] = HexDigit(x % 16)

\* C5: on both receive paths, a frame that reaches a handler carries the
\* checksum of its content.
C5_BadChecksumNeverDispatched ==
    lastRx.handler # {} => ChecksumMatches(lastRx.frame)

\* C5 on the UART path alone.
UartBadChecksumNeverDispatched ==
    (lastRx.path = "uart" /\ lastRx.handler # {}) => ChecksumMatches(lastRx.frame)

\* ------------------------------------------------------------------------
\* Properties of the job table
\* ------------------------------------------------------------------------

ProbeLookup == cluster_master_find_job_mapping(probe.numeric_id, probe.pool_id)

\* C10 (as amended): a mapping whose key no other stored notify carries is
\* returned by lookup after up to MAX_JOB_MAPPINGS - 1 further stores; once
\* MAX_JOB_MAPPINGS further stores have been made lookup reports a miss,
\* unless a stored notify carries the same numeric id for the other pool.
C10_HitBelowCapacityMissFromCapacity ==
    (probe.set /\ ~probe.key_reused) =>
        /\ probe.since <= MAX_JOB_MAPPINGS - 1 => ProbeLookup = probe.job_id_str
        /\ (probe.since >= MAX_JOB_MAPPINGS /\ ~probe.id_reused)
              => ProbeLookup = MISS

\* C10 (as stated): a mapping whose key no other stored notify carries is
\* returned by lookup after up to MAX_JOB_MAPPINGS further stores, and
\* lookup reports a miss once MAX_JOB_MAPPINGS + 1 further stores have been
\* made.
C10_HitUpToCapacityMissAfter ==
    (probe.set /\ ~probe.key_reused) =>
        /\ probe.since <= MAX_JOB_MAPPINGS => ProbeLookup = probe.job_id_str
        /\ probe.since >= MAX_JOB_MAPPINGS + 1 => ProbeLookup = MISS

\* The followed mapping has just been overwritten: MAX_JOB_MAPPINGS further
\* notifies have been stored, none with its key or its numeric id.
C10_Witness ==
    /\ probe.set
    /\ ~probe.key_reused
    /\ ~probe.id_reused
    /\ probe.since = MAX_JOB_MAPPINGS

\* ------------------------------------------------------------------------
\* Properties of the frame encoders and decoders
\* ------------------------------------------------------------------------

WorkFields ==
    {"target_slave_id", "job_id", "prev_block_hash", "merkle_root", "version",
     "version_mask", "nbits", "ntime", "nonce_start", "nonce_end",
     "extranonce2_len", "clean_jobs", "pool_diff"}

ShareFields ==
    {"slave_id", "job_id", "nonce", "ntime", "version", "extranonce2_len"}

\* The extranonce2 bytes in use are the same in both values.
SameEn2(a, b) ==
    /\ a.extranonce2_len = b.extranonce2_len
    /\ \A k \in 1 .. a.extranonce2_len :
          k <= EXTRANONCE2_BYTES => a.extranonce2[k] = b.extranonce2[k]

\* C13: decoding a frame an encoder has emitted gives back every mandatory
\* field of the value that was encoded.
C13_DecodeReturnsEncodedFields ==
    codec.kind # "none" /\ codec.outcome = "frame" =>
        /\ codec.decoded.err = ESP_OK
        /\ \A f \in (IF codec.kind = "share" THEN ShareFields ELSE WorkFields) :
              codec.decoded[f] = codec.input[f]
        /\ SameEn2(codec.input, codec.decoded)

\* What the first snprintf of the encoder of the call would write.
CodecBody ==
    IF codec.kind = "share"
    THEN <<CLUSTER_MSG_START>> \o
         JoinFields(<<BAP_MSG_SHARE, ToDec(codec.input.slave_id),
                      WToDec(codec.input.job_id), WToDec(codec.input.nonce),
                      WToDec(codec.input.ntime), WToDec(codec.input.version),
                      cluster_protocol_bytes_to_hex(En2Read(codec.input, 0),
                                                    codec.input.extranonce2_len),
                      ToDec(codec.input.extranonce2_len)>>)
    ELSE WorkBody(codec.input, En2Read(codec.input, 0))

C15_FullRegistryAnswersNoSlot ==
    reply.ret # "none" /\ reply.full =>
        /\ reply.unchanged
        /\ \E k \in DOMAIN reply.acks :
              /\ reply.acks[k].type = "CLACK"
              /\ reply.acks[k].status = "no_slot"

\* ------------------------------------------------------------------------
\* Properties of the Pacer
\* ------------------------------------------------------------------------

\* C16: once the Pacer is initialised, the job interval in effect lies
\* within [min_interval_ms, max_interval_ms].
C16_IntervalWithinBounds ==
    pacer_pc # "boot" =>
        /\ at.min_interval_ms <= at.current_interval_ms
        /\ at.current_interval_ms <= at.max_interval_ms

\* C17: at the end of a complete calibration sweep in which some step
\* collected at least 20 shares, the interval applied is the one of the first
\* step with the lowest rejection rate among the steps with at least 20
\* shares.
C17_SweepSelectsLowestRate ==
    sweep.done /\ sweep.any => sweep.applied = sweep.interval

\* ------------------------------------------------------------------------
\* Properties of the pool balancer
\* ------------------------------------------------------------------------

AcceptedTotal == cluster_primary_distributed + cluster_secondary_distributed

\* |a| <= b
AbsLe(a, b) == a <= b /\ 0 - a <= b

\* C11: once ten or more notifies have been offered, the accepted primary
\* notifies are within 1 of pool_balance percent of the accepted notifies.
C11_PrimaryShareWithinOne ==
    offered >= 10 =>
        AbsLe(100 * cluster_primary_distributed - pool_balance * AcceptedTotal, 100)

\* The partition in the registry is the one calculate_nonce_ranges() makes
\* of the present lifecycles: no worker has entered or left Active since
\* the last recompute without having come back.
PartitionCurrent == slaves = calculate_nonce_ranges(slaves)

\* C22: whenever a work frame goes on the air, the partition has been
\* recomputed since the last transition of a worker to or from Active.
C22_RecomputeBeforeNextFrame ==
    [][lastTx' # lastTx => PartitionCurrent]_vars

\* The slots the stated priority order allows a registration of hostname
\* from link address mac to take, in the registry as it is before the call.
SlotsByPriority(hostname, mac) ==
    LET by_mac == {i \in Slots : mac # NoMac /\ slaves[i].mac = mac}
        by_hostname == {i \in Slots : /\ slaves[i].state # SLAVE_STATE_DISCONNECTED
                                      /\ slaves[i].hostname = hostname}
        free == {i \in Slots : slaves[i].state = SLAVE_STATE_DISCONNECTED}
    IN IF by_mac # {} THEN by_mac
       ELSE IF by_hostname # {} THEN by_hostname
       ELSE IF free # {} THEN {SetMin(free)}
       ELSE {}

\* C23: a registration that takes a slot takes the slot with its link
\* address if there is one, whatever its lifecycle; otherwise the
\* non-Disconnected slot with its hostname; otherwise the lowest
\* Disconnected slot.
C23_SlotByPriority ==
    [][(tasks["rx"].pc = "idle" /\ tasks'["rx"].pc = "calc")
          => tasks'["rx"].reg.slot
                \in SlotsByPriority(tasks'["rx"].reg.hostname, tasks'["rx"].reg.mac)]_vars

HeartbeatAge(i) == now - slaves[i].last_heartbeat

\* C24: a worker whose last heartbeat is older than 2 x CLUSTER_HEARTBEAT_MS
\* does not stay Active, and one whose last heartbeat is older than
\* CLUSTER_TIMEOUT_MS becomes Disconnected, unless a heartbeat or a
\* registration renews it; and no step takes a slot to Disconnected while
\* its last heartbeat is at most CLUSTER_TIMEOUT_MS old.
C24_SupervisorMarksTimeouts ==
    /\ \A i \in Slots :
          (IsActive(i) /\ HeartbeatAge(i) > 2 * CLUSTER_HEARTBEAT_MS)
             ~> (~IsActive(i) \/ HeartbeatAge(i) <= 2 * CLUSTER_HEARTBEAT_MS)
    /\ \A i \in Slots :
          (slaves[i].state # SLAVE_STATE_DISCONNECTED
              /\ HeartbeatAge(i) > CLUSTER_TIMEOUT_MS)
             ~> (slaves[i].state = SLAVE_STATE_DISCONNECTED
                    \/ HeartbeatAge(i) <= CLUSTER_TIMEOUT_MS)
    /\ [][\A i \in Slots :
            (slaves[i].state # SLAVE_STATE_DISCONNECTED
                /\ slaves'[i].state = SLAVE_STATE_DISCONNECTED)
               => HeartbeatAge(i) > CLUSTER_TIMEOUT_MS]_vars

\* The supervisor has just given up a registered worker whose heartbeats
\* stopped.
C24_Witness ==
    /\ tasks["coord"].pc = "calc"
    /\ \E i \in Slots :
          /\ slaves[i].hostname # 0
          /\ slaves[i].state = SLAVE_STATE_DISCONNECTED
          /\ HeartbeatAge(i) > CLUSTER_TIMEOUT_MS

\* C25: the extranonce2 of a share the Worker queues is the extranonce2 of
\* the ASIC job that found its nonce.
C25_ShareCarriesJobExtranonce2 ==
    found_share.found_by # 0 =>
        Extranonce2Of(found_share) = Extranonce2Of(asic_jobs[found_share.found_by])

\* The job the ASIC was given last, as worker_task identifies works.
LastSubmittedKey ==
    IF asic_jobs = <<>> THEN <<>> ELSE WorkKey(asic_jobs[Len(asic_jobs)])

StoredWorkIs(k) == g_slave.work_valid /\ WorkKey(g_slave.current_work) = k

\* C26: the work stored last is eventually the job the ASIC was given last
\* (unless other work replaces it first), and no work is submitted twice in
\* a row.
C26_LatestWorkSubmittedOnce ==
    /\ \A k \in {WorkKey(w) : w \in WorkFrames} :
           StoredWorkIs(k) ~> (~StoredWorkIs(k) \/ LastSubmittedKey = k)
    /\ [][asic_jobs' # asic_jobs =>
              WorkKey(asic_jobs'[Len(asic_jobs')]) # LastSubmittedKey]_vars

\* C27: the header fields of every CLWRK frame come from one notify.
C27_FrameFromOneWork ==
    clwrk.by # "none" =>
        \A f, g \in WorkHeaderFields : clwrk.hdr[f] = clwrk.hdr[g]

\* C28: a task that is inside a transport send does not hold the registry
\* mutex.
C28_NoSendUnderRegistryMutex ==
    \A t \in LockTasks : callers[t].sending => slaves_mutex # t

\* A task is sending while another task holds the registry mutex.
C28_Witness ==
    \E t, u \in LockTasks : t # u /\ callers[t].sending /\ slaves_mutex = u

\* C29: at most one transmit is in flight, and the completion a sender
\* consumes is that of its own transmit.
C29_OneTransmitInFlight ==
    /\ Len(in_flight) <= 1
    /\ consumed.by = consumed.of

\* The reject rate of the shares of the window being observed
\* (auto_timing_get_rejection_rate).
WindowRejectionRate ==
    calculate_rejection_rate(at.window_shares_accepted,
                             at.window_shares_rejected)

\* C30: a pass of auto_timing_task over an enabled, Locked Pacer leaves the
\* Pacer as it is, or starts a calibration when the reject rate of the
\* shares being observed exceeds 10%.
C30_LockedUntilHighRejectRate ==
    [][(PacerTaskStep /\ at.enabled /\ at.state = AUTO_TIMING_LOCKED) =>
          \/ at' = at
          \/ /\ at'.state = AUTO_TIMING_CALIBRATING
             /\ WindowRejectionRate[1]
                    > LOCKED_RECALIBRATE_RATE * WindowRejectionRate[2]]_vars

\* C31: once a sweep has run to completion the hardware is at the best
\* cell the status reports and the Tuner is Locked.
C31_CompletedSweepAppliesBest ==
    grid.complete =>
        /\ hw = [frequency |-> g_autotune.best_frequency,
                 voltage |-> g_autotune.best_voltage]
        /\ g_autotune.state = AUTOTUNE_STATE_LOCKED

\* NVS_CONFIG_ASIC_VOLTAGE: every place that sets the core voltage persists
\* the value it sets (cluster_autotune.c:407, 768, 1248).
nvs_asic_voltage == hw.voltage

\* C32: after a watchdog tick that read an input voltage below 4.9 V the
\* persisted core voltage is 1100 mV.
C32_LowVinPinsSafeVoltage ==
    (wd.seen /\ wd.vin < VIN_MIN_SAFE_MV) => nvs_asic_voltage = VOLTAGE_SAFE_MV

\* C39: no watchdog tick sets the frequency or the core voltage to a value
\* above the one it read.
C39_TickNeverRaises ==
    (wd.seen /\ hw # wd.before) =>
        /\ hw.frequency <= wd.current_freq
        /\ hw.voltage <= wd.current_voltage

\* C33: with one pool sending all the notifies, the balancer is never in a
\* state where it vetoes that pool's notify; a veto changes no counter, so
\* from such a state every further notify of that pool is vetoed too.
C33_OnePoolNeverVetoedForGood ==
    \A pool_id \in PoolIds :
        (OnlyPool(pool_id) /\ DistributedOf(pool_id) > 0) =>
            cluster_should_distribute_work(pool_id)

\* C34: the merkle root of every CLWRK frame is computed from the coinbase
\* and merkle branches of the notify that gave the frame its job_id and
\* header fields.
C34_MerkleRootOfSameNotify ==
    clwrk_origin.sent => clwrk_origin.merkle_of = clwrk_origin.notify

\* C35: no two Worker devices hold the same id while both take themselves
\* for registered.
C35_NoTwoDevicesWithOneId ==
    \A d \in Devices, e \in Devices :
        (d # e /\ devices[d].registered /\ devices[e].registered) =>
            devices[d].my_id # devices[e].my_id

\* C36: slave_count is the number of registry slots whose lifecycle is not
\* Disconnected.
C36_CountIsOccupiedSlots ==
    slave_count =
        Cardinality({i \in Slots : slaves[i].state # SLAVE_STATE_DISCONNECTED})

\* The job-id strings the ring holds under a key; a notify's string is its
\* number in the order of the stores.
StoredUnderKey(numeric_id, pool_id) ==
    {job_mappings[i].job_id_str : i \in
        {j \in DOMAIN job_mappings :
            /\ job_mappings[j].valid
            /\ job_mappings[j].numeric_id = numeric_id
            /\ job_mappings[j].pool_id = pool_id}}

\* C37: when the ring holds several notifies under one (job_id_numeric,
\* pool_id) key, the lookup of the key returns the job-id string of the one
\* stored last.
C37_LookupReturnsLatestOfKey ==
    \A numeric_id \in 1 .. MaxNumericId, pool_id \in PoolIds :
        LET strings == StoredUnderKey(numeric_id, pool_id)
        IN Cardinality(strings) >= 2 =>
              /\ cluster_master_find_job_mapping(numeric_id, pool_id) \in strings
              /\ \A other \in strings :
                    other <= cluster_master_find_job_mapping(numeric_id, pool_id)

\* C38: once the shares on the way have arrived, every distinct result the
\* ASIC reported has been queued for Stratum; results that differ in rolled
\* version or extranonce2 only are distinct.
C38_DistinctProofsAllForwarded ==
    clshr_link = <<>> => proofs_found \subseteq to_stratum

\* C40: at most one task of cluster_autotune_task exists at any time.
C40_AtMostOneTunerTask == Cardinality(AliveTunerTasks) <= 1

====
